---- MODULE Spec2Model ----
(***************************************************************************)
(* A model of the chess game analysis pipeline of                          *)
(* antvrobin/basic_pgn_cheat_detection:                                    *)
(*   analyzer/engine_analyzer.py      EngineAnalyzer                       *)
(*   analyzer/metrics.py              MetricsCalculator                    *)
(*   analyzer/complexity_calculator.py ComplexityCalculator                *)
(*   analyzer/opening_explorer.py     OpeningExplorer                      *)
(*                                                                         *)
(* Python floats are modelled by exact rationals <<n, d>> in lowest terms  *)
(* with d > 0; Python dicts by functions on strings, read with Get (the    *)
(* dict.get of the source, with its default).                              *)
(***************************************************************************)
EXTENDS Integers, Sequences, FiniteSets, TLC

VARIABLES
    pc,                 \* position of the modelled call
    moves,              \* EngineAnalyzer.analyze_game: the moves _parse_pgn returned
    engine,             \* the engine process: its status and what it answered
    board,              \* the position: the number of moves pushed on the board of
                        \* analyze_game; for calculate_complexity, its features
    move_analyses,      \* the list of per-ply records
    position_complexities, \* MetricsCalculator: the complexity dict of each record
    opening_analysis,   \* MetricsCalculator: what analyze_opening_deviation returned
    metrics,            \* the metrics dict being built / returned
    result,             \* the dict analyze_game returns
    explorer,           \* the opening database: its content and the queries it got
    scan,               \* OpeningExplorer.get_opening_moves_count: its loop variables
    candidates,         \* calculate_complexity: the top_moves_analysis it is given
    pgn_parser,         \* the PGNParser objects: their fields game, headers, moves_data
    calls               \* concurrent MetricsCalculator.analyze_game calls: the
                        \* argument, the calculator used and the locals of each

vars ==
    <<pc, moves, engine, board, move_analyses, position_complexities,
      opening_analysis, metrics, result, explorer, scan, candidates, pgn_parser, calls>>

(***************************************************************************)
(* Rational arithmetic                                                     *)
(***************************************************************************)
Abs(x) == IF x < 0 THEN -x ELSE x

RECURSIVE GCD(_, _)
GCD(a, b) == IF b = 0 THEN a ELSE GCD(b, a % b)

\* n/d in lowest terms, d > 0
Rat(n, d) ==
    LET s == IF d < 0 THEN -1 ELSE 1
        g == GCD(Abs(n), Abs(d))
    IN  <<(s * n) \div g, (s * d) \div g>>

R(n) == <<n, 1>>
\* common factors are cancelled before multiplying, to keep the numbers small
RAdd(a, b) ==
    LET g == GCD(a[2], b[2])
    IN  Rat(a[1] * (b[2] \div g) + b[1] * (a[2] \div g), (a[2] \div g) * b[2])
RSub(a, b) == RAdd(a, <<-b[1], b[2]>>)
RMul(a, b) ==
    LET g1 == GCD(Abs(a[1]), b[2])
        g2 == GCD(Abs(b[1]), a[2])
    IN  Rat((a[1] \div g1) * (b[1] \div g2), (a[2] \div g2) * (b[2] \div g1))
RDiv(a, b) ==
    IF b[1] = 0 THEN Rat(a[1] * b[2], 0)
    ELSE RMul(a, IF b[1] < 0 THEN <<-b[2], -b[1]>> ELSE <<b[2], b[1]>>)
RLt(a, b) == a[1] * b[2] < b[1] * a[2]
RLe(a, b) == a[1] * b[2] <= b[1] * a[2]
RGt(a, b) == RLt(b, a)
RGe(a, b) == RLe(b, a)
RMax(a, b) == IF RLt(a, b) THEN b ELSE a
RMin(a, b) == IF RLt(b, a) THEN b ELSE a

RECURSIVE RSum(_)
RSum(s) == IF s = <<>> THEN R(0) ELSE RAdd(s[1], RSum(Tail(s)))

\* np.mean of a non-empty list
RMean(s) == RDiv(RSum(s), R(Len(s)))

(***************************************************************************)
(* Python dicts                                                            *)
(***************************************************************************)
EmptyDict == [k \in {} |-> 0]

\* d.get(k, default)
Get(d, k, default) == IF k \in DOMAIN d THEN d[k] ELSE default

\* d with d[k] = v
Put(d, k, v) == [x \in DOMAIN d \cup {k} |-> IF x = k THEN v ELSE d[x]]

\* the opening explorer and the scan before any opening analysis
ExplorerIdle == [in_theory |-> 0, queries |-> <<>>, requests |-> <<>>]
ScanIdle == [i |-> 0, opening_moves |-> 0]

\* no PGNParser object and no concurrent call
ParsersIdle == <<>>
NoCalls == <<>>

(***************************************************************************)
(* List helpers                                                            *)
(***************************************************************************)
Range(s) == {s[i] : i \in 1..Len(s)}

\* [f(x) for x in s]
Map(s, f(_)) == [i \in 1..Len(s) |-> f(s[i])]

\* sum(1 for x in s if p(x))
Count(s, p(_)) == Cardinality({i \in 1..Len(s) : p(s[i])})

\* s[a:b] of Python, 0 <= a, b <= len(s)
Slice(s, a, b) == IF a >= b THEN <<>> ELSE SubSeq(s, a + 1, b)

RECURSIVE RMaxOf(_)
RMaxOf(s) == IF Len(s) = 1 THEN s[1] ELSE RMax(s[1], RMaxOf(Tail(s)))

\* np.var of a non-empty list (population variance)
RVar(s) ==
    LET mean == RMean(s)
        sq(x) == RMul(RSub(x, mean), RSub(x, mean))
    IN  RMean(Map(s, sq))

\* Square roots: a rational when the root is one, else <<"sqrt", n, d>>, the
\* positive root of n/d
RECURSIVE ISqrtFrom(_, _)
ISqrtFrom(n, k) == IF (k + 1) * (k + 1) > n THEN k ELSE ISqrtFrom(n, k + 1)
ISqrt(n) == ISqrtFrom(n, 0)
IsSquare(n) == ISqrt(n) * ISqrt(n) = n

Sqrt(r) ==
    IF IsSquare(r[1]) /\ IsSquare(r[2]) THEN <<ISqrt(r[1]), ISqrt(r[2])>>
    ELSE <<"sqrt", r[1], r[2]>>

IsRoot(x) == Len(x) = 3
Square(x) == IF IsRoot(x) THEN <<x[2], x[3]>> ELSE RMul(x, x)

\* x < c and x > c for x a rational or a root, c a rational
XLt(x, c) == IF IsRoot(x) THEN RGt(c, R(0)) /\ RLt(Square(x), RMul(c, c)) ELSE RLt(x, c)
XGt(x, c) == IF IsRoot(x) THEN RLt(c, R(0)) \/ RGt(Square(x), RMul(c, c)) ELSE RGt(x, c)

\* np.std of a non-empty list
Std(s) == Sqrt(RVar(s))

\* std / mean for mean > 0
StdOverMean(s) == Sqrt(RDiv(RVar(s), RMul(RMean(s), RMean(s))))

(***************************************************************************)
(* MetricsCalculator._calculate_engine_matching_metrics (metrics.py 215-260)*)
(***************************************************************************)
engine_data_of(analysis) == Get(analysis, "engine_analysis", EmptyDict)

\* records that pass 'if not engine_data.get('is_legal', False): continue'
is_legal_record(analysis) == Get(engine_data_of(analysis), "is_legal", FALSE)

move_rank_of(analysis) == Get(engine_data_of(analysis), "move_rank", 0)

matching_counted_all_legal(analysis) == is_legal_record(analysis)

\* the records that reach 'total_analyzed += 1'
matching_counted(analysis) == is_legal_record(analysis) /\ move_rank_of(analysis) > 0

pv_matches_exact(analyses, n) ==
    Count(analyses, LAMBDA a : matching_counted(a) /\ move_rank_of(a) = n)

\* pv1_matches, pv2_matches, pv3_matches for n = 1, 2, 3
pv_matches(analyses, n) ==
    Count(analyses, LAMBDA a : matching_counted(a) /\ move_rank_of(a) <= n)

calculate_engine_matching_metrics(analyses) ==
    LET total_analyzed == Count(analyses, matching_counted)
        pct(n) == RMul(Rat(pv_matches(analyses, n), total_analyzed), R(100))
    IN  IF total_analyzed = 0
        THEN [pv1_matches |-> 0, pv2_matches |-> 0, pv3_matches |-> 0,
              pv1_percentage |-> R(0), pv2_percentage |-> R(0),
              pv3_percentage |-> R(0), total_analyzed |-> 0]
        ELSE [pv1_matches |-> pv_matches(analyses, 1),
              pv2_matches |-> pv_matches(analyses, 2),
              pv3_matches |-> pv_matches(analyses, 3),
              pv1_percentage |-> pct(1), pv2_percentage |-> pct(2),
              pv3_percentage |-> pct(3), total_analyzed |-> total_analyzed]

(***************************************************************************)
(* MetricsCalculator._calculate_accuracy_metrics (metrics.py 309-352)      *)
(***************************************************************************)
cp_loss_of(analysis) == Get(engine_data_of(analysis), "centipawn_loss", 0)

\* the mutant of accuracy_score_of without the clamp at 0
accuracy_score_unclamped(avg_cp_loss) == RSub(R(100), RDiv(avg_cp_loss, R(10)))

\* max(0, 100 - (avg_cp_loss / 10))
accuracy_score_of(avg_cp_loss) == RMax(R(0), RSub(R(100), RDiv(avg_cp_loss, R(10))))

calculate_accuracy_metrics(analyses) ==
    LET legal == SelectSeq(analyses, is_legal_record)
        centipawn_losses == Map(legal, LAMBDA a : R(cp_loss_of(a)))
        avg_cp_loss == RMean(centipawn_losses)
    IN  IF centipawn_losses = <<>>
        THEN [avg_centipawn_loss |-> R(0), total_centipawn_loss |-> R(0),
              accuracy_score |-> R(0), blunder_count |-> 0,
              mistake_count |-> 0, inaccuracy_count |-> 0]
        ELSE [avg_centipawn_loss |-> avg_cp_loss,
              total_centipawn_loss |-> RSum(centipawn_losses),
              accuracy_score |-> accuracy_score_of(avg_cp_loss),
              blunder_count |-> Count(centipawn_losses, LAMBDA l : RGe(l, R(300))),
              mistake_count |->
                  Count(centipawn_losses, LAMBDA l : RGe(l, R(100)) /\ RLt(l, R(300))),
              inaccuracy_count |->
                  Count(centipawn_losses, LAMBDA l : RGe(l, R(50)) /\ RLt(l, R(100))),
              total_moves |-> Len(legal)]

(***************************************************************************)
(* ComplexityCalculator.calculate_game_complexity_summary                  *)
(* (complexity_calculator.py 374-445)                                      *)
(***************************************************************************)
RECURSIVE StreakFrom(_, _, _, _)
StreakFrom(categories, target_categories, current_streak, max_streak) ==
    IF categories = <<>> THEN max_streak
    ELSE IF categories[1] \in target_categories
         THEN StreakFrom(Tail(categories), target_categories, current_streak + 1,
                         IF current_streak + 1 > max_streak THEN current_streak + 1
                         ELSE max_streak)
         ELSE StreakFrom(Tail(categories), target_categories, 0, max_streak)

\* the mutant of find_longest_streak that never resets the counter
find_longest_streak_no_reset(categories, target_categories) ==
    Count(categories, LAMBDA c : c \in target_categories)

find_longest_streak(categories, target_categories) ==
    StreakFrom(categories, target_categories, 0, 0)

get_empty_game_summary ==
    [average_pcs |-> R(0), max_pcs |-> R(0), category_distribution |-> EmptyDict,
     category_percentages |-> EmptyDict, critical_chaotic_percentage |-> R(0),
     longest_critical_streak |-> 0, total_positions |-> 0,
     complexity_variance |-> R(0)]

calculate_game_complexity_summary(complexities) ==
    LET pcs_scores == Map(complexities, LAMBDA pos : Get(pos, "pcs_score", R(0)))
        categories ==
            Map(complexities, LAMBDA pos : Get(pos, "pcs_category", "trivial"))
        total_positions == Len(complexities)
        category_counts ==
            [c \in Range(categories) |-> Count(categories, LAMBDA x : x = c)]
        category_percentages ==
            [c \in DOMAIN category_counts |->
                RMul(Rat(category_counts[c], total_positions), R(100))]
    IN  IF complexities = <<>> THEN get_empty_game_summary
        ELSE [average_pcs |-> RMean(pcs_scores),
              max_pcs |-> RMaxOf(pcs_scores),
              category_distribution |-> category_counts,
              category_percentages |-> category_percentages,
              critical_chaotic_percentage |->
                  RAdd(Get(category_percentages, "critical", R(0)),
                       Get(category_percentages, "chaotic", R(0))),
              longest_critical_streak |->
                  find_longest_streak(categories, {"critical", "chaotic"}),
              total_positions |-> total_positions,
              complexity_variance |->
                  IF Len(pcs_scores) > 1 THEN RVar(pcs_scores) ELSE R(0)]

(***************************************************************************)
(* MetricsCalculator._calculate_temporal_metrics (metrics.py 262-307)      *)
(***************************************************************************)
\* 'move_time is not None and move_time > 0'; an absent key reads as None
has_move_time(analysis) ==
    "move_time" \in DOMAIN analysis /\ analysis["move_time"] > 0

time_of(analysis) == R(analysis["move_time"])

calculate_temporal_metrics(analyses) ==
    LET timed == SelectSeq(analyses, has_move_time)
        move_times == Map(timed, time_of)
        white_times ==
            Map(SelectSeq(timed, LAMBDA a : a["player"] = "white"), time_of)
        black_times ==
            Map(SelectSeq(timed, LAMBDA a : a["player"] # "white"), time_of)
        move_time_mean == RMean(move_times)
        move_time_cv ==
            IF RGt(move_time_mean, R(0)) THEN StdOverMean(move_times) ELSE R(0)
    IN  IF move_times = <<>>
        THEN [move_time_std |-> R(0), move_time_mean |-> R(0), move_time_cv |-> R(0),
              white_time_std |-> R(0), black_time_std |-> R(0),
              time_consistency_score |-> R(0)]
        ELSE [move_time_std |-> Std(move_times),
              move_time_mean |-> move_time_mean,
              move_time_cv |-> move_time_cv,
              white_time_std |-> IF white_times # <<>> THEN Std(white_times) ELSE R(0),
              black_time_std |-> IF black_times # <<>> THEN Std(black_times) ELSE R(0),
              time_consistency_score |-> move_time_cv,
              total_moves_with_time |-> Len(move_times)]

(***************************************************************************)
(* MetricsCalculator._calculate_behavioral_metrics and its helpers         *)
(* (metrics.py 354-454)                                                    *)
(***************************************************************************)
\* analysis.get('complexity', {}).get('total_complexity', 0)
total_complexity_of(analysis) ==
    Get(Get(analysis, "complexity", EmptyDict), "total_complexity", R(0))

\* 1 / (1 + cv) per complexity group of more than one legal record; the mean of
\* these, or 0.5. With an irrational cv the mean is kept as the list of cvs.
calculate_position_consistency(analyses) ==
    LET legal == SelectSeq(analyses, is_legal_record)
        low == SelectSeq(legal, LAMBDA a : RLt(total_complexity_of(a), Rat(4, 10)))
        medium ==
            SelectSeq(legal, LAMBDA a : /\ ~RLt(total_complexity_of(a), Rat(4, 10))
                                        /\ RLt(total_complexity_of(a), Rat(7, 10)))
        high == SelectSeq(legal, LAMBDA a : ~RLt(total_complexity_of(a), Rat(7, 10)))
        groups == SelectSeq(<<low, medium, high>>, LAMBDA g : Len(g) > 1)
        cv_of(g) ==
            LET losses == Map(g, LAMBDA a : R(cp_loss_of(a)))
            IN  IF RGt(RMean(losses), R(0)) THEN StdOverMean(losses) ELSE R(0)
        cvs == Map(groups, cv_of)
    IN  IF cvs = <<>> THEN Rat(1, 2)
        ELSE IF \A i \in 1..Len(cvs) : ~IsRoot(cvs[i])
             THEN RMean(Map(cvs, LAMBDA cv : RDiv(R(1), RAdd(R(1), cv))))
             ELSE [mean_of_inverse_one_plus |-> cvs]

phase_score(phase_moves) ==
    LET cp_losses == Map(SelectSeq(phase_moves, is_legal_record),
                         LAMBDA a : R(cp_loss_of(a)))
    IN  IF phase_moves # <<>> /\ cp_losses # <<>>
        THEN RMax(R(0), RSub(R(100), RDiv(RMean(cp_losses), R(10))))
        ELSE R(0)

calculate_phase_performance(analyses) ==
    LET total_moves == Len(analyses)
        quarter == total_moves \div 4
        opening_end == IF 15 < quarter THEN 15 ELSE quarter
        three_quarters == (3 * total_moves) \div 4
        endgame_start ==
            IF total_moves - 15 > three_quarters THEN total_moves - 15
            ELSE three_quarters
    IN  IF total_moves < 20
        THEN [opening |-> R(0), middlegame |-> R(0), endgame |-> R(0)]
        ELSE [opening |-> phase_score(Slice(analyses, 0, opening_end)),
              middlegame |-> phase_score(Slice(analyses, opening_end, endgame_start)),
              endgame |-> phase_score(Slice(analyses, endgame_start, total_moves))]

calculate_behavioral_metrics(analyses) ==
    LET timed == SelectSeq(analyses, has_move_time)
        critical_position_times ==
            Map(SelectSeq(timed, LAMBDA a : RGt(total_complexity_of(a), Rat(6, 10))),
                time_of)
        normal_position_times ==
            Map(SelectSeq(timed, LAMBDA a : ~RGt(total_complexity_of(a), Rat(6, 10))),
                time_of)
        critical_time_ratio ==
            IF critical_position_times # <<>> /\ normal_position_times # <<>>
            THEN IF RGt(RMean(normal_position_times), R(0))
                 THEN RDiv(RMean(critical_position_times), RMean(normal_position_times))
                 ELSE R(1)
            ELSE R(1)
    IN  [critical_time_ratio |-> critical_time_ratio,
         position_consistency |-> calculate_position_consistency(analyses),
         endgame_performance |-> calculate_phase_performance(analyses),
         critical_positions_count |-> Len(critical_position_times),
         normal_positions_count |-> Len(normal_position_times)]

(***************************************************************************)
(* MetricsCalculator._calculate_opening_metrics, _assess_opening_strength  *)
(* (metrics.py 205-213, 456-468)                                           *)
(***************************************************************************)
None == "None"

assess_opening_strength(opening) ==
    LET opening_moves == Get(opening, "opening_moves_count", 0)
        opening_percentage == Get(opening, "opening_percentage", R(0))
    IN  IF opening_moves >= 12 /\ RGe(opening_percentage, R(30)) THEN "strong"
        ELSE IF opening_moves >= 8 /\ RGe(opening_percentage, R(20)) THEN "moderate"
        ELSE IF opening_moves >= 4 THEN "weak"
        ELSE "very_weak"

calculate_opening_metrics(opening) ==
    [opening_moves_count |-> Get(opening, "opening_moves_count", 0),
     opening_percentage |-> Get(opening, "opening_percentage", R(0)),
     deviation_move_number |-> Get(opening, "deviation_move", None),
     is_mostly_opening |-> Get(opening, "is_mostly_opening", FALSE),
     opening_strength |-> assess_opening_strength(opening)]

(***************************************************************************)
(* MetricsCalculator._calculate_risk_assessment  (metrics.py 470-525)      *)
(***************************************************************************)
Factor(label, tenths) == <<label, Rat(tenths, 10)>>

\* 1. Engine matching risk: an if/elif chain, one append at most
pv1_ladder_double(pv1_pct) ==
    (IF RGt(pv1_pct, R(80)) THEN <<Factor("very_high_pv1", 9)>> ELSE <<>>)
    \o (IF RGt(pv1_pct, R(60)) THEN <<Factor("high_pv1", 7)>> ELSE <<>>)
    \o (IF RGt(pv1_pct, R(40)) THEN <<Factor("moderate_pv1", 4)>> ELSE <<>>)

\* the mutant of pv1_ladder whose lowest rung weighs 0.3
pv1_ladder_light(pv1_pct) ==
    IF RGt(pv1_pct, R(80)) THEN <<Factor("very_high_pv1", 9)>>
    ELSE IF RGt(pv1_pct, R(60)) THEN <<Factor("high_pv1", 7)>>
    ELSE IF RGt(pv1_pct, R(40)) THEN <<Factor("moderate_pv1", 3)>>
    ELSE <<>>

pv1_ladder(pv1_pct) ==
    IF RGt(pv1_pct, R(80)) THEN <<Factor("very_high_pv1", 9)>>
    ELSE IF RGt(pv1_pct, R(60)) THEN <<Factor("high_pv1", 7)>>
    ELSE IF RGt(pv1_pct, R(40)) THEN <<Factor("moderate_pv1", 4)>>
    ELSE <<>>

\* the mutant of timing_ladder that takes a CV of exactly 0 as 'no timing data'
timing_ladder_timed_only(time_cv) ==
    IF time_cv = R(0) THEN <<>>
    ELSE IF XLt(time_cv, Rat(3, 10)) THEN <<Factor("very_consistent_timing", 8)>>
    ELSE IF XLt(time_cv, Rat(5, 10)) THEN <<Factor("consistent_timing", 5)>>
    ELSE <<>>

\* 2. Temporal consistency risk
timing_ladder(time_cv) ==
    IF XLt(time_cv, Rat(3, 10)) THEN <<Factor("very_consistent_timing", 8)>>
    ELSE IF XLt(time_cv, Rat(5, 10)) THEN <<Factor("consistent_timing", 5)>>
    ELSE <<>>

\* 3. Accuracy risk
accuracy_ladder(accuracy) ==
    IF RGt(accuracy, R(95)) THEN <<Factor("very_high_accuracy", 9)>>
    ELSE IF RGt(accuracy, R(85)) THEN <<Factor("high_accuracy", 6)>>
    ELSE <<>>

\* 4. Complexity handling risk
complexity_ladder(avg_complexity) ==
    IF RGt(avg_complexity, Rat(7, 10)) THEN <<Factor("high_complexity_handling", 7)>>
    ELSE <<>>

\* risk_factors, in the order of the four appends
risk_factors_of(m) ==
    pv1_ladder(Get(m["engine_matching"], "pv1_percentage", R(0)))
    \o timing_ladder(Get(m["temporal_metrics"], "move_time_cv", R(0)))
    \o accuracy_ladder(Get(m["accuracy_metrics"], "accuracy_score", R(0)))
    \o complexity_ladder(Get(m["complexity_metrics"], "average_complexity", R(0)))

Weights(factors) == [i \in 1..Len(factors) |-> factors[i][2]]

risk_score_sum(factors) ==
    IF factors # <<>> THEN RSum(Weights(factors)) ELSE Rat(1, 10)

\* np.mean of the weights, or 0.1 when no factor fired
risk_score_of(factors) ==
    IF factors # <<>> THEN RMean(Weights(factors)) ELSE Rat(1, 10)

risk_level_strict(risk_score) ==
    IF RGt(risk_score, Rat(8, 10)) THEN "very_high"
    ELSE IF RGt(risk_score, Rat(6, 10)) THEN "high"
    ELSE IF RGt(risk_score, Rat(4, 10)) THEN "moderate"
    ELSE IF RGt(risk_score, Rat(2, 10)) THEN "low"
    ELSE "very_low"

risk_level_of(risk_score) ==
    IF RGe(risk_score, Rat(8, 10)) THEN "very_high"
    ELSE IF RGe(risk_score, Rat(6, 10)) THEN "high"
    ELSE IF RGe(risk_score, Rat(4, 10)) THEN "moderate"
    ELSE IF RGe(risk_score, Rat(2, 10)) THEN "low"
    ELSE "very_low"

\* the returned dict (the 'summary' text repeats risk_level and risk_score)
calculate_risk_assessment(m) ==
    LET risk_factors == risk_factors_of(m)
        risk_score == risk_score_of(risk_factors)
    IN  [risk_score |-> risk_score,
         risk_level |-> risk_level_of(risk_score),
         risk_factors |-> risk_factors]

(***************************************************************************)
(* MetricsCalculator._calculate_all_metrics (metrics.py 159-203)           *)
(***************************************************************************)
calculate_all_metrics(analyses, complexities, opening) ==
    LET m == [opening_metrics |-> calculate_opening_metrics(opening),
              engine_matching |-> calculate_engine_matching_metrics(analyses),
              complexity_metrics |-> calculate_game_complexity_summary(complexities),
              temporal_metrics |-> calculate_temporal_metrics(analyses),
              accuracy_metrics |-> calculate_accuracy_metrics(analyses),
              behavioral_metrics |-> calculate_behavioral_metrics(analyses)]
    IN  Put(m, "risk_assessment", calculate_risk_assessment(m))

(***************************************************************************)
(* ComplexityCalculator.calculate_complexity and its helpers               *)
(* (complexity_calculator.py 44-184, 357-372)                              *)
(*                                                                         *)
(* A 'score' is a Python int, [int |-> v], or a dict with a 'mate' or a    *)
(* 'cp' key.  What the chess library derives from the board (tactical      *)
(* density, choice entropy, strategic factors, the number of legal moves)  *)
(* comes in as the record 'features'.                                      *)
(***************************************************************************)
IntScore(v) == [int |-> v]

\* lines 116-125: an int is taken as it is, a dict by its mate or cp entry
score_value(score) ==
    IF "int" \in DOMAIN score THEN score["int"]
    ELSE IF Get(score, "mate", 0) # 0
         THEN (IF score["mate"] > 0 THEN 1000 ELSE -1000)
         ELSE Get(score, "cp", 0)

\* the mutant of Positive that lets a negative difference through
NotClamped(r) == r

\* max(0, .)
Positive(r) == RMax(R(0), r)

\* the mutant of calculate_pcs_score that pads a missing entry with 0
calculate_pcs_score_zero_padded(top_moves_analysis) ==
    LET first3 == Slice(top_moves_analysis, 0,
                        IF Len(top_moves_analysis) < 3 THEN Len(top_moves_analysis)
                        ELSE 3)
        scores == Map(first3, LAMBDA d : score_value(Get(d, "score", IntScore(0))))
        padded == [i \in 1..3 |-> IF i <= Len(scores) THEN scores[i] ELSE 0]
    IN  IF Len(top_moves_analysis) < 2 THEN R(0)
        ELSE RAdd(Positive(R(padded[1] - padded[2])),
                  RDiv(Positive(R(padded[1] - padded[3])), R(2)))

calculate_pcs_score(top_moves_analysis) ==
    LET first3 == Slice(top_moves_analysis, 0,
                        IF Len(top_moves_analysis) < 3 THEN Len(top_moves_analysis)
                        ELSE 3)
        scores == Map(first3, LAMBDA d : score_value(Get(d, "score", IntScore(0))))
        padded == [i \in 1..3 |-> IF i <= Len(scores) THEN scores[i]
                                  ELSE scores[Len(scores)]]
    IN  IF Len(top_moves_analysis) < 2 THEN R(0)
        ELSE RAdd(Positive(R(padded[1] - padded[2])),
                  RDiv(Positive(R(padded[1] - padded[3])), R(2)))

\* the mutant of get_pcs_category whose thresholds belong to the lower category
get_pcs_category_upper_inclusive(pcs_score) ==
    IF RLe(pcs_score, R(30)) THEN "trivial"
    ELSE IF RLe(pcs_score, R(80)) THEN "balanced"
    ELSE IF RLe(pcs_score, R(150)) THEN "critical"
    ELSE "chaotic"

get_pcs_category(pcs_score) ==
    IF RLt(pcs_score, R(30)) THEN "trivial"
    ELSE IF RLt(pcs_score, R(80)) THEN "balanced"
    ELSE IF RLt(pcs_score, R(150)) THEN "critical"
    ELSE "chaotic"

Clamp01(r) == RMax(R(0), RMin(R(1), r))

normalize_complexity(pcs_score, tactical_density, choice_entropy, strategic_factors) ==
    LET normalized_pcs == RMin(R(1), RDiv(pcs_score, R(200)))
    IN  Clamp01(RAdd(RAdd(RMul(normalized_pcs, Rat(60, 100)),
                          RMul(tactical_density, Rat(20, 100))),
                     RAdd(RMul(choice_entropy, Rat(15, 100)),
                          RMul(strategic_factors, Rat(5, 100)))))

calculate_decision_difficulty(pcs_score, legal_moves) ==
    LET base_difficulty == RMin(R(1), RDiv(pcs_score, R(150)))
        move_factor == RMin(R(1), Rat(legal_moves, 40))
    IN  Clamp01(RAdd(RMul(base_difficulty, Rat(8, 10)), RMul(move_factor, Rat(2, 10))))

get_default_complexity ==
    [pcs_score |-> R(0), pcs_category |-> "trivial",
     normalized_complexity |-> Rat(3, 10), decision_difficulty |-> Rat(3, 10),
     components |-> [pcs_score |-> R(0), tactical_density |-> R(0),
                     choice_entropy |-> R(0), strategic_factors |-> R(0)],
     legal_moves_count |-> 0]

\* a 'score' that is None, [none |-> TRUE], makes the subtraction of line 134
\* raise when it is among the first three of at least two candidates
pcs_score_raises(top_moves_analysis) ==
    /\ Len(top_moves_analysis) >= 2
    /\ \E i \in 1..Len(top_moves_analysis) :
          i <= 3 /\ "none" \in DOMAIN Get(top_moves_analysis[i], "score", IntScore(0))

\* the dict of lines 79-92 (the 'interpretation' text repeats category and
\* score), or the default of line 96 when the calculation raised
calculate_complexity(features, top_moves_analysis) ==
    LET pcs_score == calculate_pcs_score(top_moves_analysis)
    IN  IF pcs_score_raises(top_moves_analysis) THEN get_default_complexity ELSE
        [pcs_score |-> pcs_score,
         pcs_category |-> get_pcs_category(pcs_score),
         normalized_complexity |->
             normalize_complexity(pcs_score, features["tactical_density"],
                                  features["choice_entropy"],
                                  features["strategic_factors"]),
         decision_difficulty |->
             calculate_decision_difficulty(pcs_score, features["legal_moves"]),
         components |-> [pcs_score |-> pcs_score,
                         tactical_density |-> features["tactical_density"],
                         choice_entropy |-> features["choice_entropy"],
                         strategic_factors |-> features["strategic_factors"]],
         legal_moves_count |-> features["legal_moves"]]

(***************************************************************************)
(* EngineAnalyzer._get_engine_analysis (engine_analyzer.py 335-484)        *)
(*                                                                         *)
(* 'answer' is what the engine does for one position:                      *)
(*   ok        whether engine.analyse returned                             *)
(*   evals     the evaluations of the candidate lines, in rank order        *)
(*             (the Score of each)                                         *)
(*   played_at the rank at which the played move stands among them, or 0   *)
(*   primary   the score of the first line                                 *)
(*   query     the supplementary analysis of the position after the move:   *)
(*             whether it returned, and its score                          *)
(***************************************************************************)
analysis_depth == 12
max_pv_moves == 3

\* 'x or 0'
OrZero(x) == IF x # 0 THEN x ELSE 0

\* chess.engine.Score: Cp(v) is v centipawns, Mate(n) a mate in n moves, for
\* the side to move when n > 0
Cp(v) == [kind |-> "cp", value |-> v]
Mate(n) == [kind |-> "mate", value |-> n]

\* Score.score(mate_score=m): the centipawns of a Cp; m - n for a mate in n
\* for the side to move, -m - n (n < 0) for one against it
score_with_mate(sc, mate_score) ==
    IF sc["kind"] = "cp" THEN sc["value"]
    ELSE IF sc["value"] > 0 THEN mate_score - sc["value"]
    ELSE -mate_score - sc["value"]

\* .score(mate_score=10000) or 0
evaluation_of(sc) == OrZero(score_with_mate(sc, 10000))

\* the uci of the candidate of rank j: the played move or another one
CandidateUci(answer, played_uci, j) == IF j = answer["played_at"] THEN played_uci ELSE -j

top_moves_of(answer, played_uci) ==
    [j \in 1..(IF Len(answer["evals"]) < max_pv_moves THEN Len(answer["evals"])
               ELSE max_pv_moves) |->
        [rank |-> j, move |-> CandidateUci(answer, played_uci, j),
         uci |-> CandidateUci(answer, played_uci, j),
         evaluation |-> evaluation_of(answer["evals"][j])]]

\* lines 421-426: the first candidate whose uci is the played one
move_rank_in(top_moves, played_uci) ==
    LET hits == {j \in 1..Len(top_moves) : top_moves[j]["uci"] = played_uci}
    IN  IF hits = {} THEN 0 ELSE CHOOSE j \in hits : \A k \in hits : j <= k

\* lines 435-448
played_eval_of(answer, top_moves, move_rank) ==
    IF move_rank > 0 THEN top_moves[move_rank]["evaluation"]
    ELSE IF ~answer["query"]["ok"] THEN top_moves[1]["evaluation"]
    ELSE OrZero(-score_with_mate(answer["query"]["score"], 10000))

\* the mutant of centipawn_loss_of without the clamp at 0
centipawn_loss_unclamped(answer, top_moves, move_rank) ==
    IF top_moves # <<>>
    THEN top_moves[1]["evaluation"] - played_eval_of(answer, top_moves, move_rank)
    ELSE 0

\* lines 431-450: max(0, best_eval - played_eval), 0 without candidates
centipawn_loss_of(answer, top_moves, move_rank) ==
    IF top_moves # <<>>
    THEN LET diff == top_moves[1]["evaluation"]
                        - played_eval_of(answer, top_moves, move_rank)
         IN  IF diff > 0 THEN diff ELSE 0
    ELSE 0

\* the mutant of engine_analysis_failed that leaves the validity flag on
engine_analysis_failed_valid ==
    [evaluation |-> 0, move_rank |-> 0, centipawn_loss |-> 0, top_moves |-> <<>>,
     depth |-> 0, is_valid |-> TRUE, error |-> "engine"]

\* lines 472-484
engine_analysis_failed ==
    [evaluation |-> 0, move_rank |-> 0, centipawn_loss |-> 0, top_moves |-> <<>>,
     depth |-> 0, is_valid |-> FALSE, error |-> "engine"]

\* the returned dict (without the engine's node count and time)
get_engine_analysis(answer, played_uci) ==
    IF ~answer["ok"] THEN engine_analysis_failed
    ELSE LET top_moves == top_moves_of(answer, played_uci)
             move_rank == move_rank_in(top_moves, played_uci)
         IN  [evaluation |-> evaluation_of(answer["primary"]),
              move_rank |-> move_rank,
              centipawn_loss |-> centipawn_loss_of(answer, top_moves, move_rank),
              top_moves |-> top_moves,
              depth |-> analysis_depth,
              is_valid |-> TRUE]

(***************************************************************************)
(* EngineAnalyzer._analyze_position (engine_analyzer.py 288-333) and       *)
(* _get_opening_analysis (486-522)                                         *)
(***************************************************************************)
max_opening_moves == 20

\* 'games' is the total the opening explorer reports for the position, 0 when
\* the request fails
get_opening_analysis(move_stack_len, games) ==
    IF move_stack_len > max_opening_moves \/ games <= 0
    THEN [in_theory |-> FALSE, popularity |-> 0]
    ELSE [in_theory |-> TRUE, popularity |-> games, total_games |-> games]

\* the mutant of analyze_position that sees the board after the move
analyze_position_after_move(answer, features, games, position, played_uci) ==
    LET engine_analysis == get_engine_analysis(answer, played_uci)
        top_moves_data == Get(engine_analysis, "top_moves", <<>>)
        top_moves_for_pcs ==
            Map(Slice(top_moves_data, 0,
                      IF Len(top_moves_data) < 3 THEN Len(top_moves_data) ELSE 3),
                LAMBDA t : [score |-> IntScore(Get(t, "evaluation", 0)),
                            move |-> Get(t, "move", 0), rank |-> Get(t, "rank", 0)])
    IN  [engine_analysis |-> engine_analysis,
         complexity |-> calculate_complexity(features, top_moves_for_pcs),
         opening_analysis |-> get_opening_analysis(position, games),
         position_fen |-> position + 1,
         legal_moves_count |-> features["legal_moves"]]

analyze_position(answer, features, games, position, played_uci) ==
    LET engine_analysis == get_engine_analysis(answer, played_uci)
        top_moves_data == Get(engine_analysis, "top_moves", <<>>)
        top_moves_for_pcs ==
            Map(Slice(top_moves_data, 0,
                      IF Len(top_moves_data) < 3 THEN Len(top_moves_data) ELSE 3),
                LAMBDA t : [score |-> IntScore(Get(t, "evaluation", 0)),
                            move |-> Get(t, "move", 0), rank |-> Get(t, "rank", 0)])
    IN  [engine_analysis |-> engine_analysis,
         complexity |-> calculate_complexity(features, top_moves_for_pcs),
         opening_analysis |-> get_opening_analysis(position, games),
         position_fen |-> position,
         legal_moves_count |-> features["legal_moves"]]

(***************************************************************************)
(* EngineAnalyzer._calculate_player_metrics (engine_analyzer.py 575-682)   *)
(***************************************************************************)
is_valid_record(analysis) == Get(engine_data_of(analysis), "is_valid", FALSE)

valid_moves_of(analyses) == SelectSeq(analyses, is_valid_record)

\* lines 630-637: in-theory records up to the first one that is out of theory
opening_move_count_of(analyses) ==
    LET out == {i \in 1..Len(analyses) :
                   ~Get(Get(analyses[i], "opening_analysis", EmptyDict), "in_theory", FALSE)}
        last == IF out = {} THEN Len(analyses)
                ELSE (CHOOSE i \in out : \A j \in out : i <= j) - 1
    IN  last

\* lines 640-654
player_timing_metrics(analyses) ==
    LET timed == SelectSeq(analyses, LAMBDA a : Get(a, "move_time", 0) > 0)
        move_times == Map(timed, LAMBDA a : R(a["move_time"]))
        cv == StdOverMean(move_times)
    IN  IF Len(move_times) = 0 THEN EmptyDict
        ELSE [move_time_mean |-> RMean(move_times),
              move_time_std |-> Std(move_times),
              move_time_cv |-> cv,
              total_moves_with_time |-> Len(move_times),
              time_consistency_score |->
                  IF IsRoot(cv)
                  THEN (IF XLt(cv, R(1)) THEN <<"one_minus", cv>> ELSE R(0))
                  ELSE RMax(R(0), RSub(R(1), cv))]

player_accuracy_score(avg_cp_loss) == RMax(R(0), RSub(R(100), RDiv(avg_cp_loss, R(3))))

calculate_player_metrics(analyses) ==
    LET valid_moves == valid_moves_of(analyses)
        losses == Map(valid_moves, LAMBDA a : R(Get(engine_data_of(a), "centipawn_loss", 0)))
        avg_cp_loss == RMean(losses)
        rank(a) == engine_data_of(a)["move_rank"]
        total_analyzed == Len(valid_moves)
        pv1_count == Count(valid_moves, LAMBDA a : rank(a) = 1)
        pv2_count == Count(valid_moves, LAMBDA a : rank(a) <= 2)
        pv3_count == Count(valid_moves, LAMBDA a : rank(a) <= 3)
        pct(c) == RMul(Rat(c, total_analyzed), R(100))
    IN  IF analyses = <<>> \/ valid_moves = <<>> THEN EmptyDict
        ELSE [accuracy_metrics |->
                  [accuracy_score |-> player_accuracy_score(avg_cp_loss),
                   avg_centipawn_loss |-> avg_cp_loss,
                   blunder_count |-> Count(valid_moves, LAMBDA a : cp_loss_of(a) >= 300),
                   mistake_count |->
                       Count(valid_moves,
                             LAMBDA a : cp_loss_of(a) < 300 /\ cp_loss_of(a) >= 100),
                   total_moves |-> total_analyzed],
              engine_matching |->
                  [pv1_percentage |-> pct(pv1_count),
                   pv2_percentage |-> pct(pv2_count),
                   pv3_percentage |-> pct(pv3_count),
                   total_analyzed |-> total_analyzed,
                   pv1_count |-> pv1_count, pv2_count |-> pv2_count,
                   pv3_count |-> pv3_count, pv1_3_count |-> pv3_count],
              temporal_metrics |-> player_timing_metrics(analyses),
              opening_metrics_player |->
                  [opening_move_count |-> opening_move_count_of(analyses)]]

(***************************************************************************)
(* EngineAnalyzer._calculate_complexity_trend (684-713),                   *)
(* _calculate_opening_metrics (715-738), _calculate_game_metrics (524-573) *)
(***************************************************************************)
calculate_complexity_trend(complexities) ==
    LET n == Len(complexities)
        third == n \div 3
        early_avg == RMean(Slice(complexities, 0, third))
        middle_avg == RMean(Slice(complexities, third, 2 * third))
        late_avg == RMean(Slice(complexities, 2 * third, n))
        diff == RSub(late_avg, early_avg)
        abs_diff == IF RLt(diff, R(0)) THEN RSub(R(0), diff) ELSE diff
    IN  IF n < 6 THEN "insufficient_data"
        ELSE IF RGt(late_avg, middle_avg) /\ RGt(middle_avg, early_avg) THEN "increasing"
        ELSE IF RGt(early_avg, middle_avg) /\ RGt(middle_avg, late_avg) THEN "decreasing"
        ELSE IF RGt(middle_avg, early_avg) /\ RGt(middle_avg, late_avg) THEN "peak_middle"
        ELSE IF RLt(abs_diff, Rat(1, 10)) THEN "stable"
        ELSE "variable"

engine_opening_metrics(analyses) ==
    LET opening_moves == Slice(analyses, 0, IF Len(analyses) < max_opening_moves
                                            THEN Len(analyses) ELSE max_opening_moves)
        in_theory ==
            SelectSeq(opening_moves,
                      LAMBDA a : Get(Get(a, "opening_analysis", EmptyDict),
                                     "in_theory", FALSE))
        theory_moves == Len(in_theory)
        total_popularity ==
            RSum(Map(in_theory, LAMBDA a : R(Get(a["opening_analysis"], "popularity", 0))))
    IN  [moves_in_theory |-> theory_moves,
         theory_percentage |->
             IF opening_moves # <<>>
             THEN RMul(Rat(theory_moves, Len(opening_moves)), R(100)) ELSE R(0),
         avg_popularity |->
             IF theory_moves > 0 THEN RDiv(total_popularity, R(theory_moves)) ELSE R(0),
         total_opening_moves |-> Len(opening_moves)]

player_moves(analyses, player) ==
    SelectSeq(analyses, LAMBDA a : Get(a, "player", None) = player)

calculate_game_metrics(analyses) ==
    LET combined_metrics == calculate_player_metrics(analyses)
        complexities == Map(analyses, LAMBDA a : Get(a, "complexity", EmptyDict))
        all_complexities == Map(complexities, LAMBDA c : Get(c, "pcs_score", R(0)))
        complexity_summary == calculate_game_complexity_summary(complexities)
    IN  IF analyses = <<>> THEN EmptyDict
        ELSE [white_player |-> calculate_player_metrics(player_moves(analyses, "white")),
              black_player |-> calculate_player_metrics(player_moves(analyses, "black")),
              combined |-> combined_metrics,
              accuracy_metrics |-> Get(combined_metrics, "accuracy_metrics", EmptyDict),
              engine_matching |-> Get(combined_metrics, "engine_matching", EmptyDict),
              complexity_metrics |->
                  [average_pcs |-> Get(complexity_summary, "average_pcs", R(0)),
                   max_pcs |-> Get(complexity_summary, "max_pcs", R(0)),
                   category_distribution |->
                       Get(complexity_summary, "category_distribution", EmptyDict),
                   category_percentages |->
                       Get(complexity_summary, "category_percentages", EmptyDict),
                   critical_chaotic_percentage |->
                       Get(complexity_summary, "critical_chaotic_percentage", R(0)),
                   longest_critical_streak |->
                       Get(complexity_summary, "longest_critical_streak", 0),
                   complexity_variance |->
                       Get(complexity_summary, "complexity_variance", R(0)),
                   complexity_trend |-> calculate_complexity_trend(all_complexities)],
              temporal_metrics |-> Get(combined_metrics, "temporal_metrics", EmptyDict),
              opening_metrics |-> engine_opening_metrics(analyses)]

(***************************************************************************)
(* MetricsCalculator.analyze_game, lines 72-133: the record handed to      *)
(* _calculate_all_metrics for the i-th (0-based) record of the engine      *)
(***************************************************************************)
format_analysis(analysis, i) ==
    [move_number |-> Get(analysis, "move_number", i + 1),
     player |-> Get(analysis, "player", IF i % 2 = 0 THEN "white" ELSE "black"),
     move |-> Get(analysis, "move", 0),
     uci_move |-> Get(analysis, "uci_move", 0),
     move_time |-> Get(analysis, "move_time", 0),
     clock_time |-> Get(analysis, "clock_time", 0),
     legal_moves_count |-> Get(analysis, "legal_moves_count", 0),
     engine_analysis |-> [evaluation |-> Get(analysis, "evaluation", 0),
                          centipawn_loss |-> Get(analysis, "centipawn_loss", 0),
                          move_rank |-> Get(analysis, "move_rank", 0),
                          is_legal |-> TRUE],
     complexity |-> analysis["complexity"]]

\* OpeningExplorer.analyze_opening_deviation([]): no formatted record carries a
\* uci_move, so the list of lines 136 is empty
opening_deviation_of_no_moves ==
    [opening_moves_count |-> 0, total_moves |-> 0, deviation_move |-> None,
     opening_percentage |-> R(0), is_mostly_opening |-> TRUE]

(***************************************************************************)
(* Spec: one game through MetricsCalculator.analyze_game, whose first step *)
(* is EngineAnalyzer.analyze_game (the entry point app.analyze_pgn uses)   *)
(***************************************************************************)
MaxPlies == 2

EngineIdle == [status |-> "none", replies |-> <<>>]

\* _parse_pgn, lines 205-272, for a game of n legal plies: moves are named by
\* their ply; with clock comments the time of a move is the drop of the
\* player's own clock since that player's previous move
ClockAt(i) == 600 - 10 * i * i

ParsedMoves(n, clocked) ==
    [i \in 1..n |->
        [move_number |-> (i + 1) \div 2,
         player |-> IF i % 2 = 1 THEN "white" ELSE "black",
         move |-> i, uci |-> i,
         time |-> IF clocked /\ i > 2
                  THEN (IF ClockAt(i - 2) - ClockAt(i) > 0
                        THEN ClockAt(i - 2) - ClockAt(i) ELSE 0)
                  ELSE 0,
         clock |-> IF clocked THEN ClockAt(i) ELSE 0]]

\* what the chess library derives from the position reached after 'position'
\* plies of the game (0 is the start position)
BoardFeatures(position) ==
    [tactical_density |-> IF position = 0 THEN R(0) ELSE Rat(3, 20),
     choice_entropy |-> IF position = 0 THEN R(0) ELSE Rat(1, 4),
     strategic_factors |-> Rat(7, 20),
     legal_moves |-> 20 + position]

\* what the engine may do for one position
NoQuery == [ok |-> FALSE, score |-> Cp(0)]
Queries == {NoQuery, [ok |-> TRUE, score |-> Cp(-200)], [ok |-> TRUE, score |-> Cp(50)]}
CandidateEvals == {<<>>, <<Cp(100), Cp(20)>>, <<Mate(1), Mate(3), Cp(100)>>}

EngineAnswers ==
    {[ok |-> FALSE, primary |-> Cp(0), evals |-> <<>>, played_at |-> 0, query |-> NoQuery]}
    \cup {[ok |-> TRUE, primary |-> IF e = <<>> THEN Cp(30) ELSE e[1], evals |-> e,
           played_at |-> k, query |-> q] :
             e \in CandidateEvals, k \in 0..3, q \in Queries}

\* the answers that differ in what the analyzer sees
Answers ==
    {a \in EngineAnswers :
        /\ a["played_at"] <= Len(a["evals"])
        /\ (a["played_at"] > 0 \/ a["evals"] = <<>>) => a["query"] = NoQuery}

\* total games the opening explorer reports for a position
ExplorerGames == {0, 1000}

failure_result(error) ==
    [success |-> FALSE, error |-> error, game_info |-> EmptyDict,
     move_analyses |-> <<>>, metrics |-> EmptyDict]

Init ==
    /\ pc = "parse"
    /\ moves = <<>>
    /\ engine = EngineIdle
    /\ board = 0
    /\ move_analyses = <<>>
    /\ position_complexities = <<>>
    /\ opening_analysis = EmptyDict
    /\ metrics = EmptyDict
    /\ result = EmptyDict
    /\ explorer = ExplorerIdle
    /\ scan = ScanIdle
    /\ candidates = <<>>
    /\ pgn_parser = ParsersIdle
    /\ calls = NoCalls

\* lines 78-81: a PGN that cannot be read parses to no moves
ParsePgn ==
    /\ pc = "parse"
    /\ \E n \in 0..MaxPlies, clocked \in BOOLEAN :
          /\ n = 0 => ~clocked
          /\ moves' = ParsedMoves(n, clocked)
    /\ IF moves' = <<>>
       THEN /\ result' = failure_result("No moves found in PGN")
            /\ pc' = "engine_returned"
       ELSE /\ result' = result
            /\ pc' = "open_engine"
    /\ UNCHANGED <<engine, board, move_analyses, position_complexities,
                   opening_analysis, metrics>>
    /\ UNCHANGED <<explorer, scan, candidates, pgn_parser, calls>>

\* line 89: the engine process starts, or popen_uci raises
OpenEngine ==
    /\ pc = "open_engine"
    /\ \E started \in BOOLEAN :
          IF started
          THEN /\ engine' = [engine EXCEPT !["status"] = "up"]
               /\ result' = result
               /\ pc' = "analyse"
          ELSE /\ engine' = [engine EXCEPT !["status"] = "failed"]
               /\ result' = failure_result("engine")
               /\ pc' = "engine_returned"
    /\ UNCHANGED <<moves, board, move_analyses, position_complexities,
                   opening_analysis, metrics>>
    /\ UNCHANGED <<explorer, scan, candidates, pgn_parser, calls>>

\* lines 98-155, one iteration: the position before the move is analysed, the
\* record is appended, then the move is made (the moves of _parse_pgn are
\* legal in turn, so the push succeeds)
AnalysePly ==
    /\ pc = "analyse"
    /\ Len(move_analyses) < Len(moves)
    /\ \E answer \in Answers, games \in ExplorerGames :
          LET move_data == moves[Len(move_analyses) + 1]
              analysis == analyze_position(answer, BoardFeatures(board), games,
                                           board, move_data["uci"])
              update == [move_number |-> move_data["move_number"],
                         player |-> move_data["player"],
                         move |-> move_data["move"],
                         move_time |-> Get(move_data, "time", 0),
                         clock_time |-> Get(move_data, "clock", 0)]
          IN  /\ move_analyses' = Append(move_analyses, analysis @@ update)
              /\ engine' = [engine EXCEPT !["replies"] = Append(@, answer)]
    /\ board' = board + 1
    /\ UNCHANGED <<pc, moves, position_complexities, opening_analysis, metrics, result>>
    /\ UNCHANGED <<explorer, scan, candidates, pgn_parser, calls>>

\* lines 157-170
FinishGame ==
    /\ pc = "analyse"
    /\ Len(move_analyses) = Len(moves)
    /\ result' = [success |-> TRUE, move_analyses |-> move_analyses,
                  metrics |-> calculate_game_metrics(move_analyses)]
    /\ engine' = [engine EXCEPT !["status"] = "closed"]
    /\ pc' = "engine_returned"
    /\ UNCHANGED <<moves, board, move_analyses, position_complexities,
                   opening_analysis, metrics>>
    /\ UNCHANGED <<explorer, scan, candidates, pgn_parser, calls>>

\* metrics.py 56-157: the rest of MetricsCalculator.analyze_game
Aggregate ==
    /\ pc = "engine_returned"
    /\ IF ~Get(result, "success", FALSE)
       THEN /\ pc' = "raised"
            /\ UNCHANGED <<move_analyses, position_complexities, opening_analysis,
                           metrics>>
       ELSE LET formatted ==
                    [i \in 1..Len(result["move_analyses"]) |->
                        format_analysis(result["move_analyses"][i], i - 1)]
                complexities == Map(formatted, LAMBDA a : a["complexity"])
            IN  /\ move_analyses' = formatted
                /\ position_complexities' = complexities
                /\ opening_analysis' = opening_deviation_of_no_moves
                /\ metrics' = calculate_all_metrics(formatted, complexities,
                                                    opening_deviation_of_no_moves)
                /\ pc' = "done"
    /\ UNCHANGED <<moves, engine, board, result>>
    /\ UNCHANGED <<explorer, scan, candidates, pgn_parser, calls>>

Next == ParsePgn \/ OpenEngine \/ AnalysePly \/ FinishGame \/ Aggregate

Spec == Init /\ [][Next]_vars

(***************************************************************************)
(* SpecRisk: _calculate_risk_assessment applied to arbitrary metrics       *)
(***************************************************************************)
\* values on and around every threshold of the four ladders
Pv1Values == {R(0), R(40), Rat(81, 2), R(60), R(61), R(80), Rat(161, 2), R(100)}
CvValues == {R(0), Rat(29, 100), Rat(3, 10), Rat(49, 100), Rat(1, 2), R(2)}
AccuracyValues == {R(0), R(85), Rat(171, 2), R(95), Rat(191, 2), R(100)}
ComplexityValues == {R(0), Rat(7, 10), Rat(71, 100), R(1)}

\* a sub-dict holding key k with one of the values, or lacking the key
DictsOf(k, values) == {EmptyDict} \cup {[x \in {k} |-> v] : v \in values}

RiskInputs ==
    {[engine_matching |-> em, temporal_metrics |-> tm,
      accuracy_metrics |-> am, complexity_metrics |-> cm] :
        em \in DictsOf("pv1_percentage", Pv1Values),
        tm \in DictsOf("move_time_cv", CvValues),
        am \in DictsOf("accuracy_score", AccuracyValues),
        cm \in DictsOf("average_complexity", ComplexityValues)}

InitRisk ==
    /\ pc = "risk_assessment"
    /\ metrics \in RiskInputs
    /\ moves = <<>>
    /\ engine = EngineIdle
    /\ board = 0
    /\ move_analyses = <<>>
    /\ position_complexities = <<>>
    /\ opening_analysis = EmptyDict
    /\ result = EmptyDict
    /\ explorer = ExplorerIdle
    /\ scan = ScanIdle
    /\ candidates = <<>>
    /\ pgn_parser = ParsersIdle
    /\ calls = NoCalls

\* metrics['risk_assessment'] = self._calculate_risk_assessment(metrics)
RiskAssessment ==
    /\ pc = "risk_assessment"
    /\ metrics' = Put(metrics, "risk_assessment", calculate_risk_assessment(metrics))
    /\ pc' = "done"
    /\ UNCHANGED <<moves, engine, board, move_analyses, position_complexities,
                   opening_analysis, result>>
    /\ UNCHANGED <<explorer, scan, candidates, pgn_parser, calls>>

NextRisk == RiskAssessment

SpecRisk == InitRisk /\ [][NextRisk]_vars

(***************************************************************************)
(* Claims about the risk assessment                                        *)
(***************************************************************************)
Assessed == pc = "done" /\ "risk_assessment" \in DOMAIN metrics
Risk == metrics["risk_assessment"]

Pv1Pct == Get(metrics["engine_matching"], "pv1_percentage", R(0))
TimeCv == Get(metrics["temporal_metrics"], "move_time_cv", R(0))
AccuracyScore == Get(metrics["accuracy_metrics"], "accuracy_score", R(0))
AvgComplexity == Get(metrics["complexity_metrics"], "average_complexity", R(0))

LadderOf(label) ==
    CASE label \in {"very_high_pv1", "high_pv1", "moderate_pv1"} -> 1
      [] label \in {"very_consistent_timing", "consistent_timing"} -> 2
      [] label \in {"very_high_accuracy", "high_accuracy"} -> 3
      [] label = "high_complexity_handling" -> 4
      [] OTHER -> 0

\* C1: each of the four ladders contributes at most one (label, weight) pair,
\* the pair of the highest rung that matches; risk_factors has at most 4
\* entries, never two of one ladder, in the order PV1, timing, accuracy,
\* complexity.
C1_OnePairPerLadder ==
    Assessed =>
        LET f == Risk["risk_factors"]
            has(label, tenths) == <<label, Rat(tenths, 10)>> \in Range(f)
            none(n) == \A i \in 1..Len(f) : LadderOf(f[i][1]) # n
        IN  /\ Len(f) <= 4
            /\ \A i \in 1..Len(f) : LadderOf(f[i][1]) \in 1..4
            /\ \A i, j \in 1..Len(f) : i < j => LadderOf(f[i][1]) < LadderOf(f[j][1])
            /\ IF RGt(Pv1Pct, R(80)) THEN has("very_high_pv1", 9)
               ELSE IF RGt(Pv1Pct, R(60)) THEN has("high_pv1", 7)
               ELSE IF RGt(Pv1Pct, R(40)) THEN has("moderate_pv1", 4)
               ELSE none(1)
            /\ IF RLt(TimeCv, Rat(3, 10)) THEN has("very_consistent_timing", 8)
               ELSE IF RLt(TimeCv, Rat(1, 2)) THEN has("consistent_timing", 5)
               ELSE none(2)
            /\ IF RGt(AccuracyScore, R(95)) THEN has("very_high_accuracy", 9)
               ELSE IF RGt(AccuracyScore, R(85)) THEN has("high_accuracy", 6)
               ELSE none(3)
            /\ IF RGt(AvgComplexity, Rat(7, 10)) THEN has("high_complexity_handling", 7)
               ELSE none(4)

\* all four ladders fired, the PV1 one on an input above all three of its rungs
C1_Witness ==
    /\ Assessed
    /\ Len(Risk["risk_factors"]) = 4
    /\ RGt(Pv1Pct, R(80))

\* C2: risk_score is the arithmetic mean of the fired weights, or exactly 0.1
\* when none fired; it lies in [0,1] and is never 0.
C2_ScoreIsMean ==
    Assessed =>
        LET f == Risk["risk_factors"]
            score == Risk["risk_score"]
        IN  /\ f = <<>> => score = Rat(1, 10)
            /\ f # <<>> => RMul(score, R(Len(f))) = RSum([i \in 1..Len(f) |-> f[i][2]])
            /\ RGt(score, R(0))
            /\ RLe(score, R(1))

\* three factors fired (0.7, 0.8, 0.9) and the score is their mean, 0.8
C2_Witness ==
    /\ Assessed
    /\ Len(Risk["risk_factors"]) = 3
    /\ Risk["risk_score"] = Rat(8, 10)
    /\ Risk["risk_factors"][1] = <<"high_pv1", Rat(7, 10)>>

LevelOrd(level) ==
    CASE level = "very_low" -> 0
      [] level = "low" -> 1
      [] level = "moderate" -> 2
      [] level = "high" -> 3
      [] level = "very_high" -> 4

ScoreGrid == {Rat(k, 20) : k \in 0..20}

\* C3: risk_level is a step function of risk_score alone (>= 0.8 very_high,
\* >= 0.6 high, >= 0.4 moderate, >= 0.2 low, else very_low), non-decreasing in
\* risk_score.
C3_LevelIsStepOfScore ==
    Assessed =>
        LET score == Risk["risk_score"]
            level == Risk["risk_level"]
        IN  /\ level = "very_high" <=> RGe(score, Rat(8, 10))
            /\ level = "high" <=> RGe(score, Rat(6, 10)) /\ RLt(score, Rat(8, 10))
            /\ level = "moderate" <=> RGe(score, Rat(4, 10)) /\ RLt(score, Rat(6, 10))
            /\ level = "low" <=> RGe(score, Rat(2, 10)) /\ RLt(score, Rat(4, 10))
            /\ level = "very_low" <=> RLt(score, Rat(2, 10))
            /\ \A s \in ScoreGrid :
                /\ RLe(score, s) => LevelOrd(level) <= LevelOrd(risk_level_of(s))
                /\ RLe(s, score) => LevelOrd(risk_level_of(s)) <= LevelOrd(level)

\* a score exactly on a threshold takes the upper level
C3_Witness ==
    /\ Assessed
    /\ Risk["risk_score"] = Rat(6, 10)
    /\ Risk["risk_level"] = "high"

(***************************************************************************)
(* SpecMetrics: _calculate_all_metrics applied to lists of formatted       *)
(* records (the dicts of metrics.py 108-126)                               *)
(***************************************************************************)
MaxRecords == 3

\* complexity dicts as calculate_complexity returns them (the keys read here)
LowComplexity ==
    [pcs_score |-> R(0), pcs_category |-> "trivial",
     normalized_complexity |-> Rat(3, 10), decision_difficulty |-> Rat(3, 10)]
HighComplexity ==
    [pcs_score |-> R(200), pcs_category |-> "chaotic",
     normalized_complexity |-> Rat(9, 10), decision_difficulty |-> R(1)]

FormattedRecord(is_legal, move_rank, centipawn_loss, move_time, complexity) ==
    [move_time |-> move_time,
     engine_analysis |-> [evaluation |-> 0, centipawn_loss |-> centipawn_loss,
                          move_rank |-> move_rank, is_legal |-> is_legal],
     complexity |-> complexity]

\* records that differ in validity and rank
MatchRecords ==
    {FormattedRecord(l, r, 0, 0, LowComplexity) : l \in BOOLEAN, r \in 0..4}

\* records that differ in validity, loss and complexity
LossRecords ==
    {FormattedRecord(l, 1, c, 0, x) :
        l \in BOOLEAN, c \in {0, 300}, x \in {LowComplexity, HighComplexity}}

\* records that differ in move time and complexity
TimedRecords ==
    {FormattedRecord(TRUE, 1, 0, t, x) :
        t \in {0, 10, 30}, x \in {LowComplexity, HighComplexity}}

\* timed records of a third-choice move that lost 300 centipawns
SlowRecords ==
    {FormattedRecord(TRUE, 3, 300, t, LowComplexity) : t \in {10, 30}}

SeqsUpTo(S, n) == UNION {[1..k -> S] : k \in 0..n}

\* move_number and player of the i-th ply, white moving first
Numbered(records) ==
    [i \in 1..Len(records) |->
        [x \in DOMAIN records[i] \cup {"move_number", "player"} |->
            IF x = "move_number" THEN (i + 1) \div 2
            ELSE IF x = "player" THEN (IF i % 2 = 1 THEN "white" ELSE "black")
            ELSE records[i][x]]]

ExampleRanks == <<1, 1, 2, 3, 0, 1, 2, 0, 0, 3>>
ExampleRecords ==
    [i \in 1..Len(ExampleRanks) |->
        FormattedRecord(TRUE, ExampleRanks[i], 0, 0, LowComplexity)]

\* a complexity dict of each category
ComplexityOf(category) ==
    CASE category = "trivial" -> LowComplexity
      [] category = "balanced" ->
            [pcs_score |-> R(50), pcs_category |-> "balanced",
             normalized_complexity |-> Rat(2, 5), decision_difficulty |-> Rat(1, 2)]
      [] category = "critical" ->
            [pcs_score |-> R(100), pcs_category |-> "critical",
             normalized_complexity |-> Rat(3, 5), decision_difficulty |-> Rat(7, 10)]
      [] category = "chaotic" -> HighComplexity

\* a game whose positions have these categories
StreakCategories ==
    <<"trivial", "critical", "chaotic", "balanced", "critical", "critical">>
StreakRecords ==
    [i \in 1..Len(StreakCategories) |->
        FormattedRecord(TRUE, 1, 0, 0, ComplexityOf(StreakCategories[i]))]

\* a game of 20 plies that lost 300 centipawns at each of plies 6 to 15
PhaseLosses == [i \in 1..20 |-> IF i >= 6 /\ i <= 15 THEN 300 ELSE 0]
PhaseRecords ==
    [i \in 1..Len(PhaseLosses) |->
        FormattedRecord(TRUE, 1, PhaseLosses[i], 0, LowComplexity)]

MetricsInputs ==
    {Numbered(r) : r \in SeqsUpTo(MatchRecords, MaxRecords)
                        \cup SeqsUpTo(LossRecords, MaxRecords)
                        \cup SeqsUpTo(TimedRecords, MaxRecords)
                        \cup SeqsUpTo(SlowRecords, MaxRecords)
                        \cup {ExampleRecords, StreakRecords, PhaseRecords}}

\* results of analyze_opening_deviation: no move in theory, 12 of 30 in theory
OpeningInputs ==
    {[opening_moves_count |-> 0, total_moves |-> 0, deviation_move |-> None,
      opening_percentage |-> R(0), is_mostly_opening |-> TRUE],
     [opening_moves_count |-> 12, total_moves |-> 30, deviation_move |-> "13",
      opening_percentage |-> R(40), is_mostly_opening |-> FALSE]}

InitMetrics ==
    /\ pc = "all_metrics"
    /\ move_analyses \in MetricsInputs
    /\ position_complexities = Map(move_analyses, LAMBDA a : a["complexity"])
    /\ opening_analysis \in OpeningInputs
    /\ metrics = EmptyDict
    /\ moves = <<>>
    /\ engine = EngineIdle
    /\ board = 0
    /\ result = EmptyDict
    /\ explorer = ExplorerIdle
    /\ scan = ScanIdle
    /\ candidates = <<>>
    /\ pgn_parser = ParsersIdle
    /\ calls = NoCalls

\* metrics = self._calculate_all_metrics(...)
AllMetrics ==
    /\ pc = "all_metrics"
    /\ metrics' = calculate_all_metrics(move_analyses, position_complexities,
                                        opening_analysis)
    /\ pc' = "done"
    /\ UNCHANGED <<moves, engine, board, move_analyses, position_complexities,
                   opening_analysis, result>>
    /\ UNCHANGED <<explorer, scan, candidates, pgn_parser, calls>>

NextMetrics == AllMetrics

SpecMetrics == InitMetrics /\ [][NextMetrics]_vars

(***************************************************************************)
(* Claims about the aggregated metrics                                     *)
(***************************************************************************)
MetricsDone == pc = "done" /\ "engine_matching" \in DOMAIN metrics

Legal(i) == move_analyses[i]["engine_analysis"]["is_legal"]
RankAt(i) == move_analyses[i]["engine_analysis"]["move_rank"]
Ranked == {i \in 1..Len(move_analyses) : Legal(i) /\ RankAt(i) > 0}
RankedUpTo(n) == {i \in Ranked : RankAt(i) <= n}

\* C4: an average complexity above 0.7 puts ('high_complexity_handling', 0.7)
\* among the risk factors of _calculate_all_metrics, and only that does.
C4_HighComplexityFactor ==
    MetricsDone /\ position_complexities # <<>> =>
        LET average ==
                RMean(Map(position_complexities, LAMBDA x : x["normalized_complexity"]))
        IN  RGt(average, Rat(7, 10))
                <=> <<"high_complexity_handling", Rat(7, 10)>>
                        \in Range(Risk["risk_factors"])

\* C5: only legal records of rank > 0 are counted; pvN counts rank <= N; each
\* percentage is over the number of such records; a record of rank 0 changes
\* nothing; without such records every count and percentage is 0.
C5_MatchingOverRanked ==
    MetricsDone =>
        LET em == metrics["engine_matching"]
            n == Cardinality(Ranked)
            without_rank_0 ==
                SelectSeq(move_analyses,
                          LAMBDA a : a["engine_analysis"]["move_rank"] # 0)
        IN  /\ em["total_analyzed"] = n
            /\ em["pv1_matches"] = Cardinality(RankedUpTo(1))
            /\ em["pv2_matches"] = Cardinality(RankedUpTo(2))
            /\ em["pv3_matches"] = Cardinality(RankedUpTo(3))
            /\ RMul(em["pv1_percentage"], R(n)) = R(100 * em["pv1_matches"])
            /\ RMul(em["pv2_percentage"], R(n)) = R(100 * em["pv2_matches"])
            /\ RMul(em["pv3_percentage"], R(n)) = R(100 * em["pv3_matches"])
            /\ n = 0 => /\ em["pv1_percentage"] = R(0)
                        /\ em["pv2_percentage"] = R(0)
                        /\ em["pv3_percentage"] = R(0)
            /\ calculate_engine_matching_metrics(without_rank_0) = em

\* a legal record of rank 0 beside two ranked ones, one of them of rank 1
C5_Witness ==
    /\ MetricsDone
    /\ \E i \in 1..Len(move_analyses) : Legal(i) /\ RankAt(i) = 0
    /\ metrics["engine_matching"]["total_analyzed"] = 2
    /\ metrics["engine_matching"]["pv1_percentage"] = R(50)

IsExample ==
    /\ Len(move_analyses) = Len(ExampleRanks)
    /\ \A i \in 1..Len(move_analyses) : Legal(i) /\ RankAt(i) = ExampleRanks[i]

\* C6 as stated: ten valid records of ranks [1,1,2,3,0,1,2,0,0,3] give
\* pv1 = 3/8 = 37.5%, pv2 = 5/8 = 62.5%, pv3 = 7/8 = 87.5%.
C6_ExampleAsStated ==
    MetricsDone /\ IsExample =>
        /\ metrics["engine_matching"]["pv1_percentage"] = Rat(375, 10)
        /\ metrics["engine_matching"]["pv2_percentage"] = Rat(625, 10)
        /\ metrics["engine_matching"]["pv3_percentage"] = Rat(875, 10)

\* C6: ten valid records of ranks [1,1,2,3,0,1,2,0,0,3] have 7 records of
\* rank > 0, and the percentages are pv1 = 3/7 x 100, pv2 = 5/7 x 100,
\* pv3 = 7/7 x 100 = 100%; the three records of rank 0 are not in the
\* denominator.
C6_ExamplePercentages ==
    MetricsDone /\ IsExample =>
        /\ metrics["engine_matching"]["total_analyzed"] = 7
        /\ metrics["engine_matching"]["pv1_matches"] = 3
        /\ metrics["engine_matching"]["pv2_matches"] = 5
        /\ metrics["engine_matching"]["pv3_matches"] = 7
        /\ metrics["engine_matching"]["pv1_percentage"] = Rat(300, 7)
        /\ metrics["engine_matching"]["pv2_percentage"] = Rat(500, 7)
        /\ metrics["engine_matching"]["pv3_percentage"] = R(100)

C6_Witness ==
    /\ MetricsDone
    /\ IsExample
    /\ metrics["engine_matching"]["total_analyzed"] > 0

(***************************************************************************)
(* Claims about EngineAnalyzer.analyze_game, checked under Spec            *)
(***************************************************************************)
\* the records of the engine analyzer: the list being built, then the one
\* returned
EngineRecords ==
    IF pc = "analyse" THEN move_analyses ELSE Get(result, "move_analyses", <<>>)

EngineReturned == pc \in {"engine_returned", "done", "raised"}
Succeeded == EngineReturned /\ Get(result, "success", FALSE)

EngineDataAt(i) == EngineRecords[i]["engine_analysis"]
ReplyAt(i) == engine["replies"][i]

\* the candidates of ply i that are the played move
MatchingAt(i) ==
    {j \in 1..Len(EngineDataAt(i)["top_moves"]) :
        EngineDataAt(i)["top_moves"][j]["uci"] = moves[i]["uci"]}

PlayedEvalAt(i) ==
    LET top == EngineDataAt(i)["top_moves"]
    IN  IF MatchingAt(i) # {}
        THEN top[CHOOSE j \in MatchingAt(i) : TRUE]["evaluation"]
        ELSE IF ReplyAt(i)["query"]["ok"]
             THEN -score_with_mate(ReplyAt(i)["query"]["score"], 10000)
        ELSE top[1]["evaluation"]

\* C7: the centipawn loss of a played move is never negative; when the engine
\* gave candidates it is max(0, best candidate evaluation - played move
\* evaluation), the played move's evaluation being that of the matching
\* candidate, else the sign-flipped supplementary evaluation, else (the
\* supplementary query failed) the best candidate's evaluation, so loss 0.
C7_CentipawnLoss ==
    \A i \in 1..Len(EngineRecords) :
        LET data == EngineDataAt(i)
            top == data["top_moves"]
            diff == top[1]["evaluation"] - PlayedEvalAt(i)
        IN  /\ data["centipawn_loss"] >= 0
            /\ (data["is_valid"] /\ top # <<>>) =>
                  data["centipawn_loss"] = IF diff > 0 THEN diff ELSE 0
            /\ (data["is_valid"] /\ top # <<>> /\ MatchingAt(i) = {}
                  /\ ~ReplyAt(i)["query"]["ok"]) =>
                  data["centipawn_loss"] = 0

\* a returned game with a move outside the candidates whose supplementary
\* evaluation cost 150, a move whose supplementary evaluation beat the best
\* candidate or whose query failed, and a ranked move that lost 80
C7_Witness ==
    /\ Succeeded
    /\ \E i \in 1..Len(EngineRecords) :
          /\ MatchingAt(i) = {} /\ EngineDataAt(i)["top_moves"] # <<>>
          /\ ReplyAt(i)["query"]["ok"]
          /\ EngineDataAt(i)["centipawn_loss"] = 150
    /\ \E i \in 1..Len(EngineRecords) :
          /\ MatchingAt(i) = {} /\ EngineDataAt(i)["top_moves"] # <<>>
          /\ EngineDataAt(i)["centipawn_loss"] = 0
          /\ \/ ~ReplyAt(i)["query"]["ok"]
             \/ -score_with_mate(ReplyAt(i)["query"]["score"], 10000)
                   > EngineDataAt(i)["top_moves"][1]["evaluation"]

\* C8: a ply at which the engine fails gets a record with is_valid false and
\* evaluation, move_rank and centipawn_loss 0; the loop goes on, so that once
\* the engine has been started the analysis returns success with one record
\* per ply, valid wherever the engine answered.
C8_OracleFailureContained ==
    /\ \A i \in 1..Len(EngineRecords) :
          ~ReplyAt(i)["ok"] =>
              /\ EngineDataAt(i)["is_valid"] = FALSE
              /\ EngineDataAt(i)["evaluation"] = 0
              /\ EngineDataAt(i)["move_rank"] = 0
              /\ EngineDataAt(i)["centipawn_loss"] = 0
    /\ (EngineReturned /\ engine["status"] = "closed") =>
          /\ result["success"] = TRUE
          /\ Len(result["move_analyses"]) = Len(moves)
          /\ \A i \in 1..Len(moves) :
                /\ result["move_analyses"][i]["move"] = moves[i]["move"]
                /\ ReplyAt(i)["ok"] => EngineDataAt(i)["is_valid"]
    /\ pc = "analyse" => Len(move_analyses) = Len(engine["replies"])

\* a returned two-ply game whose first ply failed and whose second did not
C8_Witness ==
    /\ Succeeded
    /\ Len(EngineRecords) = 2
    /\ ~ReplyAt(1)["ok"] /\ ~EngineDataAt(1)["is_valid"]
    /\ ReplyAt(2)["ok"] /\ EngineDataAt(2)["is_valid"]

\* C9: when the engine is unavailable for the game (it does not start, or it
\* fails at every ply) or the input has no moves, analyze_game returns
\* success false with an error, and it never returns success with only invalid
\* records.
C9_SystemicFailureAborts ==
    EngineReturned =>
        LET fails_every_ply ==
                /\ moves # <<>>
                /\ Len(engine["replies"]) = Len(moves)
                /\ \A i \in 1..Len(moves) : ~ReplyAt(i)["ok"]
        IN  /\ (engine["status"] = "failed" \/ fails_every_ply \/ moves = <<>>) =>
                  (result["success"] = FALSE /\ "error" \in DOMAIN result)
            /\ result["success"] =>
                  \E i \in 1..Len(result["move_analyses"]) :
                      is_valid_record(result["move_analyses"][i])

\* C10: an invalid ply enters no game-level average: the mean centipawn loss
\* and accuracy of the per-player metrics and of the game-level accuracy
\* metrics, and the average PCS of the complexity summary, are those of the
\* game with its invalid plies removed.
C10_InvalidPliesExcluded ==
    Succeeded =>
        LET records == result["move_analyses"]
            valid == SelectSeq(records, is_valid_record)
            complexity_of(a) == a["complexity"]
            formatted_valid == [i \in 1..Len(valid) |-> format_analysis(valid[i], i - 1)]
        IN  valid # <<>> =>
               /\ result["metrics"]["accuracy_metrics"]
                     = calculate_player_metrics(valid)["accuracy_metrics"]
               /\ result["metrics"]["complexity_metrics"]["average_pcs"]
                     = calculate_game_complexity_summary(
                           Map(valid, complexity_of))["average_pcs"]
               /\ pc = "done" =>
                     /\ metrics["accuracy_metrics"]["avg_centipawn_loss"]
                           = calculate_accuracy_metrics(formatted_valid)["avg_centipawn_loss"]
                     /\ metrics["accuracy_metrics"]["accuracy_score"]
                           = calculate_accuracy_metrics(formatted_valid)["accuracy_score"]

(***************************************************************************)
(* OpeningExplorer (opening_explorer.py)                                   *)
(*                                                                         *)
(* The opening database answers a request for a line of play with an HTTP  *)
(* status (0 stands for a request that raises: timeout, no connection) and, *)
(* with status 200, a body holding the games played from that line.  Its   *)
(* content is given by 'in_theory': the lines of the game of at most that   *)
(* many moves are well known, the next one is rare, longer ones are known   *)
(* again by transposition.                                                 *)
(***************************************************************************)
LITE_MODE == TRUE
game_threshold == 10

\* line 76
max_moves == IF LITE_MODE THEN 20 ELSE 40

NoResponse == [absent |-> TRUE]

\* 'if response:' - neither None nor an empty dict
Truthy(response) == "absent" \notin DOMAIN response /\ DOMAIN response # {}

ExplorerTotal(in_theory, play) ==
    IF Len(play) <= in_theory
    THEN (IF 60 - 10 * Len(play) > game_threshold THEN 60 - 10 * Len(play)
          ELSE game_threshold)
    ELSE IF Len(play) = in_theory + 1 THEN 5
    ELSE 50

ExplorerBody(in_theory, play) ==
    LET total == ExplorerTotal(in_theory, play)
    IN  [white |-> total \div 2, draws |-> total % 2, black |-> total \div 2,
         moves |-> <<[uci |-> Len(play) + 1, white |-> total \div 2,
                      draws |-> 0, black |-> 0]>>]

\* response.get('white', 0) + response.get('draws', 0) + response.get('black', 0)
total_games_of(response) ==
    Get(response, "white", 0) + Get(response, "draws", 0) + Get(response, "black", 0)

Request(play, use_masters, status) ==
    [endpoint |-> IF use_masters THEN "masters" ELSE "lichess", play |-> play,
     status |-> status]

\* the mutant of query_opening_api that keeps retrying while rate limited
query_opening_api_retrying(play, use_masters, answers, in_theory) ==
    LET sent(k) == [j \in 1..k |-> Request(play, use_masters, answers[j])]
        json == ExplorerBody(in_theory, play)
    IN  IF answers[1] # 429
        THEN [response |-> IF answers[1] = 200 THEN json ELSE NoResponse,
              requests |-> sent(1)]
        ELSE IF answers[2] # 429
        THEN [response |-> IF answers[2] = 200 THEN json ELSE NoResponse,
              requests |-> sent(2)]
        ELSE [response |-> IF answers[3] = 200 THEN json ELSE NoResponse,
              requests |-> sent(3)]

\* _query_opening_api, lines 211-268: 'answers' are the statuses the server
\* gives to the successive requests; the result is the returned value and the
\* requests that were sent
query_opening_api(play, use_masters, answers, in_theory) ==
    LET first == Request(play, use_masters, answers[1])
        second == Request(play, use_masters, answers[2])
        json == ExplorerBody(in_theory, play)
    IN  IF answers[1] = 200 THEN [response |-> json, requests |-> <<first>>]
        ELSE IF answers[1] = 429
        THEN [response |-> IF answers[2] = 200 THEN json ELSE NoResponse,
              requests |-> <<first, second>>]
        ELSE [response |-> NoResponse, requests |-> <<first>>]

\* get_opening_statistics, lines 114-167, given what the query returned
opening_statistics_of(response) ==
    IF Truthy(response)
    THEN [total_games |-> total_games_of(response),
          white_wins |-> Get(response, "white", 0),
          black_wins |-> Get(response, "black", 0),
          draws |-> Get(response, "draws", 0),
          is_opening |-> total_games_of(response) >= 10,
          top_continuations |->
              IF "moves" \in DOMAIN response
              THEN Map(Slice(response["moves"], 0,
                             IF Len(response["moves"]) < 5 THEN Len(response["moves"])
                             ELSE 5),
                       LAMBDA m : [move |-> Get(m, "uci", 0),
                                   games |-> Get(m, "white", 0) + Get(m, "draws", 0)
                                                + Get(m, "black", 0),
                                   white_wins |-> Get(m, "white", 0),
                                   black_wins |-> Get(m, "black", 0),
                                   draws |-> Get(m, "draws", 0)])
              ELSE <<>>]
    ELSE [total_games |-> 0, white_wins |-> 0, black_wins |-> 0, draws |-> 0,
          is_opening |-> FALSE, top_continuations |-> <<>>]

\* an Optional[int] field: None, or the number written out, so that the two
\* are never compared as numbers
SomeInt(k) == ToString(k)

Min(a, b) == IF a < b THEN a ELSE b

\* range(1, min(len(moves) + 1, max_moves)), line 82
scan_range(played) == 1..(Min(Len(played) + 1, max_moves) - 1)

\* the mutant of deviation_result that always names a deviation move
deviation_result_always(played, last_opening_move) ==
    [opening_moves_count |-> last_opening_move,
     total_moves |-> Len(played),
     deviation_move |-> SomeInt(last_opening_move + 1),
     opening_percentage |-> IF played # <<>>
                            THEN RMul(Rat(last_opening_move, Len(played)), R(100))
                            ELSE R(0),
     is_mostly_opening |-> last_opening_move >= Min(15, Len(played) \div 2)]

\* analyze_opening_deviation, lines 283-289
deviation_result(played, last_opening_move) ==
    [opening_moves_count |-> last_opening_move,
     total_moves |-> Len(played),
     deviation_move |-> IF last_opening_move < Len(played)
                        THEN SomeInt(last_opening_move + 1) ELSE None,
     opening_percentage |-> IF played # <<>>
                            THEN RMul(Rat(last_opening_move, Len(played)), R(100))
                            ELSE R(0),
     is_mostly_opening |-> last_opening_move >= Min(15, Len(played) \div 2)]

(***************************************************************************)
(* SpecOpening: OpeningExplorer.analyze_opening_deviation on one game,     *)
(* the scan of get_opening_moves_count one query at a time                 *)
(***************************************************************************)
MaxMoves == 20

\* short games, and games around the length at which the scan is cut off
Lengths == {n \in 0..MaxMoves : n <= 3 \/ n >= MaxMoves - 1}

\* the moves of a game of n moves, named by their ply
UciMoves(n) == [i \in 1..n |-> i]

Statuses == {0, 200, 429, 500}

\* the statuses of up to three successive answers; an answer that is never
\* asked for is left at 0
ServerAnswers ==
    {a \in [1..3 -> Statuses] :
        /\ a[1] # 429 => a[2] = 0
        /\ a[2] # 429 => a[3] = 0
        /\ a[3] \in {0, 200}}

Unasked == [j \in 1..3 |-> 0]

InitOpening ==
    /\ pc = "scan"
    /\ moves \in {UciMoves(n) : n \in Lengths}
    /\ \E known \in 0..Len(moves) :
          explorer = [in_theory |-> known, queries |-> <<>>, requests |-> <<>>]
    /\ scan = [i |-> 1, opening_moves |-> 0]
    /\ opening_analysis = EmptyDict
    /\ engine = EngineIdle
    /\ board = 0
    /\ move_analyses = <<>>
    /\ position_complexities = <<>>
    /\ metrics = EmptyDict
    /\ result = EmptyDict
    /\ candidates = <<>>
    /\ pgn_parser = ParsersIdle
    /\ calls = NoCalls

\* what a query was for, what was asked and what came back
QueryLog(purpose, play, query) ==
    [purpose |-> purpose, play |-> play,
     found |-> Truthy(query["response"]),
     total |-> total_games_of(query["response"])]

Asked(purpose, play, query) ==
    [explorer EXCEPT !["queries"] = Append(@, QueryLog(purpose, play, query)),
                     !["requests"] = query["requests"]]

\* the mutant of scan_after that goes on to the next prefix after a failure
scan_after_skipping(current, response) ==
    IF Truthy(response) /\ total_games_of(response) >= game_threshold
    THEN [scan |-> [i |-> current["i"] + 1, opening_moves |-> current["i"]],
          pc |-> "scan"]
    ELSE [scan |-> [i |-> current["i"] + 1,
                    opening_moves |-> current["opening_moves"]],
          pc |-> "scan"]

\* lines 91-106: count the prefix and go on, or break
scan_after(current, response) ==
    IF Truthy(response) /\ total_games_of(response) >= game_threshold
    THEN [scan |-> [i |-> current["i"] + 1, opening_moves |-> current["i"]],
          pc |-> "scan"]
    ELSE [scan |-> current, pc |-> "deviation"]

\* lines 82-106, one iteration of the loop
ScanStep ==
    /\ pc = "scan"
    /\ scan["i"] \in scan_range(moves)
    /\ \E answers \in ServerAnswers :
          LET move_sequence == Slice(moves, 0, scan["i"])
              query == query_opening_api(move_sequence, FALSE, answers,
                                         explorer["in_theory"])
              response == query["response"]
          IN  /\ explorer' = Asked("scan", move_sequence, query)
              /\ scan' = scan_after(scan, response)["scan"]
              /\ pc' = scan_after(scan, response)["pc"]
    /\ UNCHANGED <<moves, engine, board, move_analyses, position_complexities,
                   opening_analysis, metrics, result, candidates, pgn_parser, calls>>

\* the range of line 82 is used up
ScanEnd ==
    /\ pc = "scan"
    /\ scan["i"] \notin scan_range(moves)
    /\ pc' = "deviation"
    /\ UNCHANGED <<moves, engine, board, move_analyses, position_complexities,
                   opening_analysis, metrics, result, explorer, scan, candidates, pgn_parser, calls>>

\* analyze_opening_deviation, lines 281-307, after the scan returned
AnalyzeDeviation ==
    /\ pc = "deviation"
    /\ \E answers1 \in ServerAnswers, answers2 \in ServerAnswers :
          \* a query that is not made gets no answer
          /\ scan["opening_moves"] = 0 => answers1 = Unasked
          /\ (scan["opening_moves"] = 0 \/ scan["opening_moves"] >= Len(moves))
                => answers2 = Unasked
          /\ LET last_opening_move == scan["opening_moves"]
                 base == deviation_result(moves, last_opening_move)
                 book == Slice(moves, 0, last_opening_move)
                 deviates == base["deviation_move"] # None
                                /\ last_opening_move + 1 <= Len(moves)
                 query1 == query_opening_api(book, FALSE, answers1, explorer["in_theory"])
                 query2 == query_opening_api(book, FALSE, answers2, explorer["in_theory"])
                 statistics ==
                     IF last_opening_move > 0
                     THEN [opening_statistics |-> opening_statistics_of(query1["response"])]
                     ELSE EmptyDict
                 alternatives ==
                     IF deviates /\ last_opening_move > 0
                     THEN [alternative_moves |->
                              opening_statistics_of(query2["response"])["top_continuations"]]
                     ELSE EmptyDict
                 actual ==
                     IF deviates
                     THEN [actual_deviation_move |-> moves[last_opening_move + 1]]
                     ELSE EmptyDict
                 asked1 == IF last_opening_move > 0
                           THEN Asked("statistics", book, query1) ELSE explorer
             IN  /\ opening_analysis' = base @@ statistics @@ alternatives @@ actual
                 /\ explorer' =
                       IF deviates /\ last_opening_move > 0
                       THEN [asked1 EXCEPT
                                !["queries"] =
                                    Append(@, QueryLog("statistics", book, query2)),
                                !["requests"] = query2["requests"]]
                       ELSE asked1
    /\ pc' = "done"
    /\ UNCHANGED <<moves, engine, board, move_analyses, position_complexities,
                   metrics, result, scan, candidates, pgn_parser, calls>>

NextOpening == ScanStep \/ ScanEnd \/ AnalyzeDeviation

SpecOpening == InitOpening /\ [][NextOpening]_vars

(***************************************************************************)
(* Claims about OpeningExplorer, checked under SpecOpening                 *)
(***************************************************************************)
DeviationDone == pc = "done" /\ "opening_moves_count" \in DOMAIN opening_analysis

\* the queries of the scan, in the order they were made
ScanQueries == SelectSeq(explorer["queries"], LAMBDA q : q["purpose"] = "scan")

\* the database reported at least 10 games for the first i moves
Passing(i) ==
    \E k \in 1..Len(ScanQueries) :
        /\ Len(ScanQueries[k]["play"]) = i
        /\ ScanQueries[k]["found"]
        /\ ScanQueries[k]["total"] >= 10

ReportedTotals == [k \in 1..Len(ScanQueries) |-> ScanQueries[k]["total"]]

\* C11: opening_moves_count is the last i for which the database reported at
\* least 10 games for every prefix of 1..i moves (0 if the first prefix
\* fails); deviation_move is that count + 1 when it does not exceed the
\* number of moves, else None; reports of 50, 40 and 5 games for the first
\* 1, 2 and 3 moves give count 2 and deviation move 3.
C11_DeviationScan ==
    DeviationDone =>
        LET count == opening_analysis["opening_moves_count"]
        IN  /\ \A i \in 1..count : Passing(i)
            /\ ~Passing(count + 1)
            /\ opening_analysis["deviation_move"] =
                  IF count + 1 <= Len(moves) THEN SomeInt(count + 1) ELSE None
            /\ ReportedTotals = <<50, 40, 5>> =>
                  (count = 2 /\ opening_analysis["deviation_move"] = SomeInt(3))

\* the example: totals 50, 40, 5 reported for the first 1, 2, 3 moves
C11_Witness ==
    /\ DeviationDone
    /\ Len(moves) = 3
    /\ ReportedTotals = <<50, 40, 5>>
    /\ \A k \in 1..3 : Len(ScanQueries[k]["play"]) = k /\ ScanQueries[k]["found"]
    /\ opening_analysis["opening_moves_count"] = 2
    /\ opening_analysis["deviation_move"] = SomeInt(3)

\* C12: the scan queries the prefixes of 1, 2, ... moves up to
\* min(len(moves), max_moves) inclusive until a query fails, so that a game
\* whose queried prefixes are all in theory gets
\* opening_moves_count = min(len(moves), max_moves), max_moves being 20 in
\* lite mode and 40 otherwise.
C12_ScanUpToLimit ==
    DeviationDone =>
        LET limit == Min(Len(moves), IF LITE_MODE THEN 20 ELSE 40)
            asked == Len(ScanQueries)
        IN  /\ \A k \in 1..asked : Len(ScanQueries[k]["play"]) = k
            /\ \A k \in 1..asked - 1 : Passing(k)
            /\ asked <= limit
            /\ asked < limit => ~Passing(asked)
            /\ (\A k \in 1..asked : Passing(k)) =>
                  opening_analysis["opening_moves_count"] = limit

\* C13: a query sends one request, and a second, identical one exactly when
\* the first was answered 429; it returns the body when the last answer it
\* got is 200 and nothing otherwise.
C13_RetryOnce ==
    explorer["queries"] # <<>> =>
        LET sent == explorer["requests"]
            last_query == explorer["queries"][Len(explorer["queries"])]
        IN  /\ Len(sent) \in {1, 2}
            /\ Len(sent) = 2 <=> sent[1]["status"] = 429
            /\ \A j \in 1..Len(sent) :
                  /\ sent[j]["play"] = last_query["play"]
                  /\ sent[j]["endpoint"] = sent[1]["endpoint"]
            /\ last_query["found"] <=> sent[Len(sent)]["status"] = 200
            /\ last_query["found"] =>
                  last_query["total"] =
                      ExplorerTotal(explorer["in_theory"], last_query["play"])

\* a rate-limited query whose second request was answered 200
C13_Witness ==
    /\ Len(explorer["requests"]) = 2
    /\ explorer["requests"][1]["status"] = 429
    /\ explorer["requests"][2]["status"] = 200
    /\ explorer["queries"][Len(explorer["queries"])]["found"]

(***************************************************************************)
(* SpecComplexity: ComplexityCalculator.calculate_complexity applied to a  *)
(* position and a candidate list                                           *)
(***************************************************************************)
MaxCandidates == 4

\* the start position, a position without legal moves, a sharp position
Positions ==
    {[tactical_density |-> R(0), choice_entropy |-> R(0),
      strategic_factors |-> Rat(7, 20), legal_moves |-> 20],
     [tactical_density |-> R(0), choice_entropy |-> R(0),
      strategic_factors |-> Rat(1, 5), legal_moves |-> 0],
     [tactical_density |-> R(1), choice_entropy |-> R(1),
      strategic_factors |-> R(1), legal_moves |-> 45]}

\* scores around the category thresholds, a mate, and a score that is None
CandidateScores ==
    {IntScore(v) : v \in {0, 1, 30, 80, 150}} \cup {[mate |-> 2], [none |-> TRUE]}

CandidateLists ==
    UNION {[1..n -> {[score |-> sc] : sc \in CandidateScores}] : n \in 0..MaxCandidates}

InitComplexity ==
    /\ pc = "complexity"
    /\ board \in Positions
    /\ candidates \in CandidateLists
    /\ pgn_parser = ParsersIdle
    /\ calls = NoCalls
    /\ position_complexities = <<>>
    /\ moves = <<>>
    /\ engine = EngineIdle
    /\ move_analyses = <<>>
    /\ opening_analysis = EmptyDict
    /\ metrics = EmptyDict
    /\ result = EmptyDict
    /\ explorer = ExplorerIdle
    /\ scan = ScanIdle

\* two calls with the same arguments, one after the other
CalculateComplexity ==
    /\ pc = "complexity"
    /\ position_complexities' =
          Append(position_complexities, calculate_complexity(board, candidates))
    /\ pc' = IF Len(position_complexities) = 0 THEN "complexity" ELSE "done"
    /\ UNCHANGED <<moves, engine, board, move_analyses, opening_analysis, metrics,
                   result, explorer, scan, candidates, pgn_parser, calls>>

NextComplexity == CalculateComplexity

SpecComplexity == InitComplexity /\ [][NextComplexity]_vars

(***************************************************************************)
(* Claims about calculate_complexity, checked under SpecComplexity         *)
(***************************************************************************)
Calculated == position_complexities # <<>> /\ pc \in {"complexity", "done"}
Complexity == position_complexities[1]
DefaultPath == pcs_score_raises(candidates)

C15_DefaultOnInsufficientInput ==
    /\ pc = "done" => Len(position_complexities) = 2
    /\ Calculated =>
          ((Len(candidates) < 2 \/ board["legal_moves"] = 0) =>
              /\ Complexity["pcs_score"] = R(0)
              /\ Complexity["pcs_category"] = "trivial"
              /\ Complexity["normalized_complexity"] = Rat(3, 10)
              /\ Complexity["decision_difficulty"] = Rat(3, 10))

CandidateValue(i) ==
    score_value(candidates[IF i <= Len(candidates) THEN i ELSE Len(candidates)]["score"])

CategoryOrd(category) ==
    CASE category = "trivial" -> 0
      [] category = "balanced" -> 1
      [] category = "critical" -> 2
      [] category = "chaotic" -> 3

ClampedEvalAt(i, j) ==
    LET evals == ReplyAt(i)["evals"]
        sc == evals[IF j <= Len(evals) THEN j ELSE Len(evals)]
    IN  IF sc["kind"] = "mate" THEN (IF sc["value"] > 0 THEN 1000 ELSE -1000)
        ELSE sc["value"]

\* C17: in every analysed position a candidate evaluated as a mate enters the
\* PCS formula as +1000 or -1000 by the mate's direction: with two or more
\* candidates the pcs_score of the record is
\* max(0, e1 - e2) + max(0, e1 - e3) / 2 over the clamped evaluations.
C17_MateClamped ==
    \A i \in 1..Len(EngineRecords) :
        (EngineDataAt(i)["is_valid"] /\ Len(ReplyAt(i)["evals"]) >= 2) =>
            LET e1 == ClampedEvalAt(i, 1)
                e2 == ClampedEvalAt(i, 2)
                e3 == ClampedEvalAt(i, 3)
                gap2 == IF e1 - e2 > 0 THEN e1 - e2 ELSE 0
                gap3 == IF e1 - e3 > 0 THEN e1 - e3 ELSE 0
            IN  EngineRecords[i]["complexity"]["pcs_score"] = Rat(2 * gap2 + gap3, 2)

(***************************************************************************)
(* Claim about the complexity summary, checked under SpecMetrics           *)
(***************************************************************************)
CategoriesSeen == Map(position_complexities, LAMBDA c : c["pcs_category"])
IsCriticalRun(i, j) ==
    \A k \in i..j : CategoriesSeen[k] \in {"critical", "chaotic"}

\* the length of the longest run of critical or chaotic positions
LongestCriticalRun ==
    LET lengths == {0} \cup {j - i + 1 : i \in 1..Len(CategoriesSeen), j \in 1..Len(CategoriesSeen)}
        runs == {n \in lengths :
                    n = 0 \/ \E i \in 1..Len(CategoriesSeen) :
                                /\ i + n - 1 <= Len(CategoriesSeen)
                                /\ IsCriticalRun(i, i + n - 1)}
    IN  CHOOSE n \in runs : \A m \in runs : m <= n

\* C19 (amended): longest_critical_streak is the length of the longest run of
\* consecutive positions whose category is critical or chaotic; for the
\* categories trivial, critical, chaotic, balanced, critical, critical it is 2.
C19_LongestStreak ==
    MetricsDone =>
        /\ metrics["complexity_metrics"]["longest_critical_streak"] = LongestCriticalRun
        /\ CategoriesSeen = StreakCategories =>
              metrics["complexity_metrics"]["longest_critical_streak"] = 2

C19_Witness ==
    /\ MetricsDone
    /\ CategoriesSeen = StreakCategories
    /\ metrics["complexity_metrics"]["longest_critical_streak"] = 2

\* C19 as stated: for the categories trivial, critical, chaotic, balanced,
\* critical, critical the longest critical-or-chaotic streak is 3.
C19_StreakOfThree ==
    (MetricsDone /\ CategoriesSeen = StreakCategories) =>
        metrics["complexity_metrics"]["longest_critical_streak"] = 3

(***************************************************************************)
(* SpecAccuracy: MetricsCalculator._calculate_accuracy_metrics and         *)
(* EngineAnalyzer._calculate_player_metrics applied to the same records    *)
(***************************************************************************)
\* centipawn losses as _get_engine_analysis records them (never negative)
LossValues == {0, 150, 300, 1000, 1500}

\* a record that either function counts (is_legal, is_valid) or skips
AccuracyRecords ==
    {[move_time |-> 0,
      engine_analysis |-> [evaluation |-> 0, centipawn_loss |-> c, move_rank |-> 1,
                           is_legal |-> v, is_valid |-> v]] :
        c \in LossValues, v \in BOOLEAN}

InitAccuracy ==
    /\ pc = "accuracy"
    /\ move_analyses \in SeqsUpTo(AccuracyRecords, MaxRecords)
    /\ metrics = EmptyDict
    /\ result = EmptyDict
    /\ moves = <<>>
    /\ engine = EngineIdle
    /\ board = 0
    /\ position_complexities = <<>>
    /\ opening_analysis = EmptyDict
    /\ explorer = ExplorerIdle
    /\ scan = ScanIdle
    /\ candidates = <<>>
    /\ pgn_parser = ParsersIdle
    /\ calls = NoCalls

\* metrics['accuracy_metrics'] = self._calculate_accuracy_metrics(move_analyses)
GameAccuracy ==
    /\ pc = "accuracy"
    /\ DOMAIN metrics = {}
    /\ metrics' = [accuracy_metrics |-> calculate_accuracy_metrics(move_analyses)]
    /\ UNCHANGED <<pc, moves, engine, board, move_analyses, position_complexities,
                   opening_analysis, result, explorer, scan, candidates, pgn_parser, calls>>

\* combined_metrics = self._calculate_player_metrics(move_analyses)
PlayerAccuracy ==
    /\ pc = "accuracy"
    /\ DOMAIN result = {}
    /\ result' = [combined |-> calculate_player_metrics(move_analyses)]
    /\ UNCHANGED <<pc, moves, engine, board, move_analyses, position_complexities,
                   opening_analysis, metrics, explorer, scan, candidates, pgn_parser, calls>>

NextAccuracy == GameAccuracy \/ PlayerAccuracy

SpecAccuracy == InitAccuracy /\ [][NextAccuracy]_vars

(***************************************************************************)
(* Claim about the accuracy scores, checked under SpecAccuracy             *)
(***************************************************************************)
CountedRecords ==
    SelectSeq(move_analyses, LAMBDA a : a["engine_analysis"]["is_valid"])

RECURSIVE LossTotal(_)
LossTotal(records) ==
    IF records = <<>> THEN 0
    ELSE Head(records)["engine_analysis"]["centipawn_loss"] + LossTotal(Tail(records))

GameScored == pc = "accuracy" /\ "accuracy_metrics" \in DOMAIN metrics
PlayerScored ==
    /\ pc = "accuracy"
    /\ "combined" \in DOMAIN result
    /\ "accuracy_metrics" \in DOMAIN result["combined"]

\* max(0, 100 - (total / n) / divisor) as a fraction
ScoreExpected(total, n, divisor) ==
    IF total >= 100 * divisor * n THEN R(0)
    ELSE Rat(100 * divisor * n - total, divisor * n)

\* C20: over the counted records with mean loss m, the game-level accuracy
\* score is max(0, 100 - m / 10) and the per-player one max(0, 100 - m / 3):
\* m = 0 gives 100 in both, m = 1000 gives 0 at game level, and both scores
\* stay within [0, 100].
C20_AccuracyScores ==
    LET n == Len(CountedRecords)
        total == LossTotal(CountedRecords)
    IN  /\ (GameScored /\ n > 0) =>
              LET score == metrics["accuracy_metrics"]["accuracy_score"]
              IN  /\ score = ScoreExpected(total, n, 10)
                  /\ total = 0 => score = R(100)
                  /\ total = 1000 * n => score = R(0)
                  /\ RGe(score, R(0)) /\ RLe(score, R(100))
        /\ GameScored => RGe(metrics["accuracy_metrics"]["accuracy_score"], R(0))
        /\ PlayerScored =>
              LET score == result["combined"]["accuracy_metrics"]["accuracy_score"]
              IN  /\ n > 0
                  /\ score = ScoreExpected(total, n, 3)
                  /\ total = 0 => score = R(100)
                  /\ RGe(score, R(0)) /\ RLe(score, R(100))

\* both scores computed for records of mean loss 1000: 0 at both levels
C20_Witness ==
    /\ GameScored
    /\ PlayerScored
    /\ Len(CountedRecords) = 3
    /\ LossTotal(CountedRecords) = 3000
    /\ \E i \in 1..Len(move_analyses) :
          move_analyses[i]["engine_analysis"]["centipawn_loss"] = 1500
    /\ metrics["accuracy_metrics"]["accuracy_score"] = R(0)
    /\ result["combined"]["accuracy_metrics"]["accuracy_score"] = R(0)

(***************************************************************************)
(* Claims about the temporal and behavioral metrics, checked under         *)
(* SpecMetrics                                                             *)
(***************************************************************************)
TimedSeen == SelectSeq(move_analyses, has_move_time)

\* C21: the time consistency score the aggregator reports is max(0, 1 - CV)
\* for the move-time coefficient of variation CV it reports: 1 for uniform
\* move times, and never above 1.
C21_ConsistencyScore ==
    (MetricsDone /\ TimedSeen # <<>>) =>
        LET cv == metrics["temporal_metrics"]["move_time_cv"]
            score == metrics["temporal_metrics"]["time_consistency_score"]
        IN  /\ ~IsRoot(cv) => (~IsRoot(score) /\ score = RMax(R(0), RSub(R(1), cv)))
            /\ ~XGt(score, R(1))

\* the timed positions whose complexity record has normalized_complexity
\* above 0.6, and the other timed positions
CriticalSeen ==
    SelectSeq(TimedSeen,
              LAMBDA a : RGt(a["complexity"]["normalized_complexity"], Rat(6, 10)))
NormalSeen ==
    SelectSeq(TimedSeen,
              LAMBDA a : ~RGt(a["complexity"]["normalized_complexity"], Rat(6, 10)))

\* C22: critical_time_ratio is the mean move time of the timed positions with
\* normalized_complexity > 0.6 over the mean move time of the other timed
\* positions, 1.0 when either group is empty; every timed position with
\* normalized_complexity > 0.6 is counted in the critical group.
C22_CriticalTimeRatio ==
    (MetricsDone /\ "behavioral_metrics" \in DOMAIN metrics) =>
        LET behavioral == metrics["behavioral_metrics"]
        IN  /\ behavioral["critical_positions_count"] = Len(CriticalSeen)
            /\ behavioral["critical_time_ratio"] =
                  IF CriticalSeen # <<>> /\ NormalSeen # <<>>
                  THEN RDiv(RMean(Map(CriticalSeen, time_of)),
                            RMean(Map(NormalSeen, time_of)))
                  ELSE R(1)

\* C23: with fewer than 20 records every phase scores 0; otherwise the opening
\* is the first min(15, n / 4) records, the endgame the last 15 records or the
\* last quarter, whichever is larger, the middlegame the slice between them,
\* and a phase scores max(0, 100 - mean loss / 10) over its valid records.
C23_PhasePerformance ==
    (MetricsDone /\ "behavioral_metrics" \in DOMAIN metrics) =>
        LET n == Len(move_analyses)
            phases == metrics["behavioral_metrics"]["endgame_performance"]
            opening_size == IF 15 < n \div 4 THEN 15 ELSE n \div 4
            quarter == n - (3 * n) \div 4
            endgame_size == IF 15 > quarter THEN 15 ELSE quarter
            endgame_from == IF n - endgame_size > opening_size THEN n - endgame_size
                            ELSE opening_size
        IN  IF n < 20
            THEN phases = [opening |-> R(0), middlegame |-> R(0), endgame |-> R(0)]
            ELSE /\ phases["opening"] = phase_score(Slice(move_analyses, 0, opening_size))
                 /\ phases["middlegame"] =
                       phase_score(Slice(move_analyses, opening_size, endgame_from))
                 /\ phases["endgame"] = phase_score(Slice(move_analyses, endgame_from, n))

(***************************************************************************)
(* PGNParser.parse_pgn_file (pgn_parser.py 23-65): a PGN is its White      *)
(* header and its number of plies, the moves being named by their ply      *)
(***************************************************************************)
\* self.game = None
NoGame == [none |-> TRUE]

\* chess.pgn.read_game(io.StringIO(pgn_content))
read_game(pgn_content) ==
    [headers |-> [White |-> pgn_content["white"]],
     mainline |-> [i \in 1..pgn_content["plies"] |-> i]]

\* _extract_moves_and_times, lines 67-113, of a game without clock comments
extract_moves_and_times(game) ==
    [i \in 1..Len(game["mainline"]) |->
        [move_number |-> i,
         player |-> IF i % 2 = 1 THEN "white" ELSE "black",
         move |-> game["mainline"][i],
         uci_move |-> game["mainline"][i]]]

\* the dict of lines 46-62 (the keys read from the White header and the moves)
parsed_pgn_data(headers, moves_data) ==
    [headers |-> headers,
     moves |-> moves_data,
     total_moves |-> Len(moves_data),
     players |-> [white |-> Get(headers, "White", "Unknown")]]

(***************************************************************************)
(* SpecParallel: two calls of MetricsCalculator.analyze_game running at    *)
(* the same time, on one MetricsCalculator or on two                       *)
(***************************************************************************)
Analyses == {1, 2}
Calculators == {1, 2}
Players == {"alice", "bob"}
Pgns == {[white |-> w, plies |-> n] : w \in Players, n \in 1..MaxPlies}

\* the engine is deterministic at fixed depth: the same lines for a position
SteadyAnswer ==
    [ok |-> TRUE, primary |-> Cp(100), evals |-> <<Cp(100), Cp(20)>>,
     played_at |-> 1, query |-> NoQuery]

\* EngineAnalyzer.analyze_game (66-180) of a parsed game with that engine; it
\* keeps the game in local variables only
engine_analyze_game(pgn_content) ==
    LET parsed == ParsedMoves(pgn_content["plies"], FALSE)
        records ==
            [i \in 1..Len(parsed) |->
                analyze_position(SteadyAnswer, BoardFeatures(i - 1), 0, i - 1,
                                 parsed[i]["uci"])
                @@ [move_number |-> parsed[i]["move_number"],
                    player |-> parsed[i]["player"],
                    move |-> parsed[i]["move"],
                    move_time |-> Get(parsed[i], "time", 0),
                    clock_time |-> Get(parsed[i], "clock", 0)]]
    IN  [success |-> TRUE,
         game_info |-> [white |-> pgn_content["white"]],
         move_analyses |-> records,
         metrics |-> calculate_game_metrics(records)]

\* metrics.py 68-153: {**game_data, **pgn_data}, the formatted records, the
\* opening analysis and the metrics
analyze_game_result(analysis_result, pgn_data) ==
    LET formatted ==
            [i \in 1..Len(analysis_result["move_analyses"]) |->
                format_analysis(analysis_result["move_analyses"][i], i - 1)]
        complexities == Map(formatted, LAMBDA a : a["complexity"])
    IN  [game_info |-> pgn_data @@ analysis_result["game_info"],
         move_analyses |-> formatted,
         opening_analysis |-> opening_deviation_of_no_moves,
         metrics |-> calculate_all_metrics(formatted, complexities,
                                           opening_deviation_of_no_moves)]

\* what one call returns when nothing else runs
analyze_game_alone(pgn_content) ==
    LET game == read_game(pgn_content)
    IN  analyze_game_result(engine_analyze_game(pgn_content),
                            parsed_pgn_data(game["headers"],
                                            extract_moves_and_times(game)))

InitParallel ==
    /\ pc = [p \in Analyses |-> "engine"]
    /\ calls \in [Analyses -> {[pgn_content |-> g, calculator |-> k,
                                analysis_result |-> EmptyDict,
                                pgn_data |-> EmptyDict, returned |-> EmptyDict] :
                                  g \in Pgns, k \in Calculators}]
    /\ pgn_parser = [k \in Calculators |->
                        [game |-> NoGame, headers |-> EmptyDict, moves_data |-> <<>>]]
    /\ moves = <<>>
    /\ engine = EngineIdle
    /\ board = 0
    /\ move_analyses = <<>>
    /\ position_complexities = <<>>
    /\ opening_analysis = EmptyDict
    /\ metrics = EmptyDict
    /\ result = EmptyDict
    /\ explorer = ExplorerIdle
    /\ scan = ScanIdle
    /\ candidates = <<>>

ParallelFrame ==
    <<moves, engine, board, move_analyses, position_complexities, opening_analysis,
      metrics, result, explorer, scan, candidates>>

\* metrics.py 54: analysis_result = self.engine_analyzer.analyze_game(pgn_content)
EngineAnalysis(p) ==
    /\ pc[p] = "engine"
    /\ calls' = [calls EXCEPT ![p]["analysis_result"] =
                                  engine_analyze_game(calls[p]["pgn_content"])]
    /\ pc' = [pc EXCEPT ![p] = "read_game"]
    /\ UNCHANGED <<pgn_parser, ParallelFrame>>

\* pgn_parser.py 35: self.game = chess.pgn.read_game(pgn_io)
ReadGame(p) ==
    /\ pc[p] = "read_game"
    /\ pgn_parser' = [pgn_parser EXCEPT ![calls[p]["calculator"]]["game"] =
                                            read_game(calls[p]["pgn_content"])]
    /\ pc' = [pc EXCEPT ![p] = "headers"]
    /\ UNCHANGED <<calls, ParallelFrame>>

\* pgn_parser.py 41: self.headers = dict(self.game.headers)
ExtractHeaders(p) ==
    /\ pc[p] = "headers"
    /\ LET k == calls[p]["calculator"]
       IN  pgn_parser' = [pgn_parser EXCEPT ![k]["headers"] =
                                                pgn_parser[k]["game"]["headers"]]
    /\ pc' = [pc EXCEPT ![p] = "moves"]
    /\ UNCHANGED <<calls, ParallelFrame>>

\* pgn_parser.py 44: self.moves_data = self._extract_moves_and_times()
ExtractMoves(p) ==
    /\ pc[p] = "moves"
    /\ LET k == calls[p]["calculator"]
       IN  pgn_parser' = [pgn_parser EXCEPT ![k]["moves_data"] =
                                                extract_moves_and_times(pgn_parser[k]["game"])]
    /\ pc' = [pc EXCEPT ![p] = "return"]
    /\ UNCHANGED <<calls, ParallelFrame>>

\* pgn_parser.py 46-62: the dict built from self.headers and self.moves_data
ReturnPgnData(p) ==
    /\ pc[p] = "return"
    /\ LET k == calls[p]["calculator"]
       IN  calls' = [calls EXCEPT ![p]["pgn_data"] =
                                      parsed_pgn_data(pgn_parser[k]["headers"],
                                                      pgn_parser[k]["moves_data"])]
    /\ pc' = [pc EXCEPT ![p] = "aggregate"]
    /\ UNCHANGED <<pgn_parser, ParallelFrame>>

\* metrics.py 68-153
FinishAnalysis(p) ==
    /\ pc[p] = "aggregate"
    /\ calls' = [calls EXCEPT ![p]["returned"] =
                                  analyze_game_result(calls[p]["analysis_result"],
                                                      calls[p]["pgn_data"])]
    /\ pc' = [pc EXCEPT ![p] = "done"]
    /\ UNCHANGED <<pgn_parser, ParallelFrame>>

NextParallel ==
    \E p \in Analyses :
        \/ EngineAnalysis(p)
        \/ ReadGame(p)
        \/ ExtractHeaders(p)
        \/ ExtractMoves(p)
        \/ ReturnPgnData(p)
        \/ FinishAnalysis(p)

SpecParallel == InitParallel /\ [][NextParallel]_vars

C25_RecordUnaltered ==
    pc = "done" =>
        /\ Len(move_analyses) = Len(EngineRecords)
        /\ \A i \in 1..Len(move_analyses) :
              LET received == move_analyses[i]
                  computed == EngineDataAt(i)
              IN  /\ received["move"] = EngineRecords[i]["move"]
                  /\ received["engine_analysis"]["move_rank"] = computed["move_rank"]
                  /\ received["engine_analysis"]["centipawn_loss"] =
                        computed["centipawn_loss"]
                  /\ received["engine_analysis"]["evaluation"] = computed["evaluation"]

\* the valid records of the returned game, and those whose move was ranked
ValidReturned == SelectSeq(EngineRecords, is_valid_record)
RankedWithin(k) ==
    Len(SelectSeq(ValidReturned,
                  LAMBDA a : /\ a["engine_analysis"]["move_rank"] >= 1
                             /\ a["engine_analysis"]["move_rank"] <= k))

\* C26: in the combined engine-matching statistics a valid record with
\* move_rank 0 is in none of pv1_count, pv2_count, pv3_count and not in the
\* denominator; pv2 counts the ranks 1 and 2, pv3 the ranks 1, 2 and 3.
C26_UnrankedNotCounted ==
    (Succeeded /\ ValidReturned # <<>>) =>
        LET matching == result["metrics"]["combined"]["engine_matching"]
        IN  /\ matching["pv1_count"] = RankedWithin(1)
            /\ matching["pv2_count"] = RankedWithin(2)
            /\ matching["pv3_count"] = RankedWithin(3)
            /\ matching["total_analyzed"] = RankedWithin(3)

\* C27: analyze_game emits one record per ply, in ply order; the position
\* analysed for ply i is the board after plies 1..i-1, and the board holds
\* exactly the moves whose records exist.
C27_PliesInOrder ==
    /\ \A i \in 1..Len(EngineRecords) :
          /\ EngineRecords[i]["move"] = moves[i]["move"]
          /\ EngineRecords[i]["player"] = moves[i]["player"]
          /\ EngineRecords[i]["position_fen"] = i - 1
    /\ pc = "analyse" => (board = Len(move_analyses) /\ Len(move_analyses) <= Len(moves))
    /\ Succeeded => Len(EngineRecords) = Len(moves)

\* a returned game of at least two plies, the second analysed after one move
C27_Witness ==
    /\ Succeeded
    /\ Len(EngineRecords) >= 2
    /\ EngineRecords[2]["position_fen"] = 1
    /\ EngineRecords[2]["move"] = moves[2]["move"]

(***************************************************************************)
(* Claim about the end of the opening scan, checked under SpecOpening      *)
(***************************************************************************)
QueryPassed(k) == ScanQueries[k]["found"] /\ ScanQueries[k]["total"] >= 10

\* C28: the scan asks for the prefixes of 1, 2, ... moves and asks nothing
\* after the first prefix for which the database reports fewer than 10 games
\* or returns nothing: every query but the last passed, there are at most
\* opening_moves_count + 1 queries, and a failing query ends the scan with
\* the count reached so far.
C28_ScanStopsAtFirstFailure ==
    LET asked == Len(ScanQueries)
    IN  /\ \A k \in 1..asked : Len(ScanQueries[k]["play"]) = k
        /\ \A k \in 1..asked - 1 : QueryPassed(k)
        /\ asked <= scan["opening_moves"] + 1
        /\ (asked > 0 /\ ~QueryPassed(asked)) =>
              /\ pc \in {"deviation", "done"}
              /\ scan["opening_moves"] = asked - 1
        /\ DeviationDone => opening_analysis["opening_moves_count"] = scan["opening_moves"]

\* the scan stopped at the second move although the database knows the
\* first three moves again
C28_Witness ==
    /\ DeviationDone
    /\ Len(moves) >= 3
    /\ Len(ScanQueries) = 2
    /\ ScanQueries[2]["found"] /\ ScanQueries[2]["total"] = 5
    /\ ExplorerTotal(explorer["in_theory"], Slice(moves, 0, 3)) >= 10
    /\ opening_analysis["opening_moves_count"] = 1

(***************************************************************************)
(* Claims about the levels the risk assessment can return, checked under   *)
(* SpecRisk                                                                *)
(***************************************************************************)
\* C29: the risk level is never 'low'; it is 'very_low' exactly when no
\* factor fired, the score then being 0.1; with at least one factor the score
\* is at least 0.4 and the level moderate, high or very_high.
C29_NeverLow ==
    Assessed =>
        /\ Risk["risk_level"] # "low"
        /\ Risk["risk_level"] = "very_low" <=> Risk["risk_factors"] = <<>>
        /\ Risk["risk_factors"] = <<>> => Risk["risk_score"] = Rat(1, 10)
        /\ Risk["risk_factors"] # <<>> =>
              /\ RGe(Risk["risk_score"], Rat(4, 10))
              /\ Risk["risk_level"] \in {"moderate", "high", "very_high"}

\* the lightest factor alone: score 0.4, level moderate
C29_Witness ==
    /\ Assessed
    /\ Risk["risk_factors"] = <<Factor("moderate_pv1", 4)>>
    /\ Risk["risk_score"] = Rat(4, 10)
    /\ Risk["risk_level"] = "moderate"

(***************************************************************************)
(* Claims about games without move times, checked under SpecMetrics        *)
(***************************************************************************)
FactorsSeen == metrics["risk_assessment"]["risk_factors"]
CvSeen == metrics["temporal_metrics"]["move_time_cv"]
HasFactor(factor) == \E i \in 1..Len(FactorsSeen) : FactorsSeen[i] = factor

\* C30: a game without a record of positive move time gets move_time_cv = 0
\* and the factor ('very_consistent_timing', 0.8); the no-factor score 0.1 is
\* returned only for a game whose move-time CV is at least 0.5.
C30_UntimedGameFlagged ==
    MetricsDone =>
        /\ TimedSeen = <<>> =>
              /\ CvSeen = R(0)
              /\ HasFactor(Factor("very_consistent_timing", 8))
        /\ metrics["risk_assessment"]["risk_score"] = Rat(1, 10) =>
              /\ FactorsSeen = <<>>
              /\ ~XLt(CvSeen, Rat(5, 10))

\* a game of several plies, none of them timed, flagged for its timing
C30_Witness ==
    /\ MetricsDone
    /\ Len(move_analyses) >= 2
    /\ TimedSeen = <<>>
    /\ CvSeen = R(0)
    /\ HasFactor(Factor("very_consistent_timing", 8))

\* the no-factor floor, returned for a timed game
C30_FloorReached ==
    /\ MetricsDone
    /\ FactorsSeen = <<>>
    /\ metrics["risk_assessment"]["risk_score"] = Rat(1, 10)
    /\ TimedSeen # <<>>

====
